---------------------------- MODULE Spec2Model ----------------------------
(***************************************************************************)
(* A model of the EFO retrieval-diff-load pipeline:                        *)
(*   src/src/extractors/ols_client.py      (fetcher, extractors)           *)
(*   src/src/transformers/efo_transformer.py (normalisation, content hash) *)
(*   src/src/loaders/postgres_loader.py    (bulk upserts, run record)      *)
(*   src/src/pipeline.py                   (main: the run state machine)   *)
(*                                                                         *)
(* Conventions.  A Python str is a sequence of one-character strings; the  *)
(* value None of an Optional[str] is the record NoneStr, Some(s) wraps a   *)
(* string.  The database is a record of tables; the connection works on a  *)
(* private copy (working) that commit publishes to committed and rollback  *)
(* discards, as psycopg2 does with autocommit off.  Column timestamps      *)
(* (created_at, updated_at, started_at, completed_at) are not modelled.    *)
(***************************************************************************)
EXTENDS Integers, Sequences, FiniteSets, TLC

(***************************************************************************)
(* Bounds of the model.                                                    *)
(***************************************************************************)
MaxRecords == 2     \* records held by the source of a pipeline run
MaxBatchSize == 2   \* config.batch_size ranges over 1..MaxBatchSize
MaxLimit == 2       \* config.record_limit ranges over 0..MaxLimit
MaxPages == 2       \* pages of a source given to the fetcher alone
MaxPageSize == 2    \* records on one page
MaxHashList == 2    \* synonyms, and parents, of a term given to the hash alone
MaxBatchRecords == 5  \* records of a source in the runs that count flushes
MaxRelParents == 2  \* parent references of a child given to the relationship phase

(***************************************************************************)
(* Strings.                                                                *)
(***************************************************************************)
NoneStr == [some |-> FALSE, val |-> <<>>]
Some(s) == [some |-> TRUE, val |-> s]

\* Unicode code points of the characters the model's strings are made of.
CharCode(c) ==
  CASE c = " " -> 32 [] c = "," -> 44 [] c = "1" -> 49 [] c = "2" -> 50
    [] c = "3" -> 51 [] c = ":" -> 58 [] c = "D" -> 68 [] c = "H" -> 72
    [] c = "I" -> 73 [] c = "M" -> 77 [] c = "S" -> 83 [] c = "T" -> 84
    [] c = "U" -> 85 [] c = "a" -> 97 [] c = "b" -> 98 [] c = "d" -> 100
    [] c = "x" -> 120 [] c = "y" -> 121 [] c = "|" -> 124

IsSpace(c) == c = " "

RECURSIVE LStrip(_)
LStrip(s) == IF s # <<>> /\ IsSpace(Head(s)) THEN LStrip(Tail(s)) ELSE s

RECURSIVE RStrip(_)
RStrip(s) ==
  IF s # <<>> /\ IsSpace(s[Len(s)]) THEN RStrip(SubSeq(s, 1, Len(s) - 1)) ELSE s

\* str.strip()
Strip(s) == RStrip(LStrip(s))

\* s < t in Python's ordering of str (by code point, a prefix first)
RECURSIVE StrLess(_, _)
StrLess(s, t) ==
  IF t = <<>> THEN FALSE
  ELSE IF s = <<>> THEN TRUE
  ELSE IF Head(s) = Head(t) THEN StrLess(Tail(s), Tail(t))
  ELSE CharCode(Head(s)) < CharCode(Head(t))

RECURSIVE InsertSorted(_, _)
InsertSorted(x, l) ==
  IF l = <<>> THEN <<x>>
  ELSE IF StrLess(x, Head(l)) THEN <<x>> \o l
  ELSE <<Head(l)>> \o InsertSorted(x, Tail(l))

\* sorted(list of str)
RECURSIVE Sorted(_)
Sorted(l) == IF l = <<>> THEN <<>> ELSE InsertSorted(Head(l), Sorted(Tail(l)))

\* sep.join(list of str)
RECURSIVE Join(_, _)
Join(sep, l) ==
  IF l = <<>> THEN <<>>
  ELSE IF Len(l) = 1 THEN Head(l)
  ELSE Head(l) \o sep \o Join(sep, Tail(l))

Range(l) == {l[i] : i \in 1..Len(l)}

\* str.startswith(prefix)
IsPrefix(p, s) == Len(p) <= Len(s) /\ SubSeq(s, 1, Len(p)) = p

(***************************************************************************)
(* Python values of a raw JSON field: a missing key, null, or a string.    *)
(***************************************************************************)
Absent == [t |-> "absent", v |-> <<>>]
PyNone == [t |-> "none", v |-> <<>>]
PyStr(s) == [t |-> "str", v |-> s]

\* dict.get(key, default) on a raw field
Get(field, default) == IF field.t = "absent" THEN default ELSE field

\* truth value of a Python str-or-None
Truthy(x) == x.t = "str" /\ x.v # <<>>

(***************************************************************************)
(* Extractor: src/src/extractors/ols_client.py                             *)
(***************************************************************************)
extract_term_data(term_json) ==
  [term_id |-> Get(term_json.obo_id, PyStr(<<>>)),
   iri |-> Get(term_json.iri, PyStr(<<>>)),
   label |-> Get(term_json.label, PyStr(<<>>)),
   description |-> IF term_json.description # <<>>
                   THEN PyStr(Head(term_json.description))
                   ELSE PyNone]

RECURSIVE NonEmptyOnly(_)
NonEmptyOnly(l) ==
  IF l = <<>> THEN <<>>
  ELSE (IF Head(l) # <<>> THEN <<Head(l)>> ELSE <<>>) \o NonEmptyOnly(Tail(l))

extract_synonyms(term_json) == NonEmptyOnly(term_json.synonyms)

\* the link URLs of a list returned last first
extract_parent_iris_last_first(term_json) ==
  LET pl == term_json.parents
      n == Len(pl.hrefs)
  IN CASE pl.kind = "dict" -> NonEmptyOnly(<<Head(pl.hrefs)>>)
       [] pl.kind = "list" -> NonEmptyOnly([i \in 1..n |-> pl.hrefs[n + 1 - i]])
       [] pl.kind = "str" -> <<Head(pl.hrefs)>>
       [] OTHER -> <<>>

\* The parents entry of _links: absent, one {"href": u}, a list of them, or a
\* bare string.  Returns the link URLs.
extract_parent_iris(term_json) ==
  LET pl == term_json.parents IN
  CASE pl.kind = "dict" -> NonEmptyOnly(<<Head(pl.hrefs)>>)
    [] pl.kind = "list" -> NonEmptyOnly(pl.hrefs)
    [] pl.kind = "str" -> <<Head(pl.hrefs)>>
    [] OTHER -> <<>>

MSH == <<"M", "S", "H", ":">>

RECURSIVE MeshFromObo(_)
MeshFromObo(xs) ==
  IF xs = <<>> THEN <<>>
  ELSE (IF Head(xs).mesh_db /\ Head(xs).id # <<>> THEN <<Head(xs).id>> ELSE <<>>)
       \o MeshFromObo(Tail(xs))

RECURSIVE MeshFromAnnotation(_, _)
MeshFromAnnotation(xs, acc) ==
  IF xs = <<>> THEN acc
  ELSE LET x == Head(xs)
           mesh_id == SubSeq(x, Len(MSH) + 1, Len(x))
       IN MeshFromAnnotation(Tail(xs),
            IF IsPrefix(MSH, x) /\ mesh_id # <<>> /\ mesh_id \notin Range(acc)
            THEN Append(acc, mesh_id) ELSE acc)

\* obo_xref entries carry mesh_db: whether 'MSH' or 'MESH' occurs in the
\* upper-cased database name.
extract_mesh_xrefs(term_json) ==
  MeshFromAnnotation(term_json.db_xref, MeshFromObo(term_json.obo_xref))

(***************************************************************************)
(* Transformer: src/src/transformers/efo_transformer.py                    *)
(***************************************************************************)
\* a normalisation that validates nothing but the presence of the strings
normalize_term_unchecked(term_dict) ==
  IF term_dict.term_id.t = "none" \/ term_dict.iri.t = "none"
       \/ term_dict.label.t = "none"
  THEN [tag |-> "raise"]
  ELSE [tag |-> "ok",
        term |-> [term_id |-> Strip(term_dict.term_id.v),
                  iri |-> Strip(term_dict.iri.v),
                  label |-> Strip(term_dict.label.v),
                  description |-> NoneStr, content_hash |-> NoneStr]]

\* normalize_term: tag "ok" with the term, "invalid" for the None result,
\* "raise" when .strip() is applied to None (AttributeError).
normalize_term(term_dict) ==
  IF term_dict.term_id.t = "none" \/ term_dict.iri.t = "none"
       \/ term_dict.label.t = "none"
  THEN [tag |-> "raise"]
  ELSE LET term_id == Strip(term_dict.term_id.v)
           iri == Strip(term_dict.iri.v)
           label == Strip(term_dict.label.v)
           d == term_dict.description
           description == IF Truthy(d)
                          THEN (IF Strip(d.v) # <<>> THEN Some(Strip(d.v)) ELSE NoneStr)
                          ELSE (IF d.t = "str" THEN Some(d.v) ELSE NoneStr)
       IN IF term_id = <<>> \/ iri = <<>> \/ label = <<>>
          THEN [tag |-> "invalid"]
          ELSE [tag |-> "ok",
                term |-> [term_id |-> term_id, iri |-> iri, label |-> label,
                          description |-> description, content_hash |-> NoneStr]]

RECURSIVE normalize_synonyms(_, _)
normalize_synonyms(term_id, synonyms_list) ==
  IF synonyms_list = <<>> THEN <<>>
  ELSE LET synonym == Strip(Head(synonyms_list)) IN
       (IF Head(synonyms_list) # <<>> /\ synonym # <<>>
        THEN <<[term_id |-> term_id, synonym |-> synonym]>> ELSE <<>>)
       \o normalize_synonyms(term_id, Tail(synonyms_list))

\* str.find: the first position where sub starts in s, 0 when there is none
Find(sub, s) ==
  LET at == {i \in 1..(Len(s) - Len(sub) + 1) :
               SubSeq(s, i, i + Len(sub) - 1) = sub}
  IN IF at = {} THEN 0 ELSE CHOOSE i \in at : \A j \in at : i <= j

\* s.split(sep)[0] and s.split(sep)[1], for a separator that occurs in s
BeforeFirst(sep, s) ==
  IF Find(sep, s) = 0 THEN s ELSE SubSeq(s, 1, Find(sep, s) - 1)
AfterFirst(sep, s) == SubSeq(s, Find(sep, s) + Len(sep), Len(s))
SplitSecond(sep, s) == BeforeFirst(sep, AfterFirst(sep, s))

RECURSIVE Replace(_, _, _)
Replace(s, old, new) ==
  IF Find(old, s) = 0 THEN s
  ELSE BeforeFirst(old, s) \o new \o Replace(AfterFirst(old, s), old, new)

IriParam == <<"?", "i", "r", "i", "=">>
TermsPath == <<"/", "t", "e", "r", "m", "s", "/">>

extract_iri_from_href(href) ==
  IF Find(IriParam, href) # 0
  THEN BeforeFirst(<<"&">>, SplitSecond(IriParam, href))
  ELSE IF Find(TermsPath, href) # 0
  THEN Replace(Replace(SplitSecond(TermsPath, href), <<"%", "3", "A">>, <<":">>),
               <<"%", "2", "F">>, <<"/">>)
  ELSE href

\* iri_to_id_map is a function from IRIs to ids; dict.get gives None (0 here,
\* falsy like None) for a missing key.
MapGet(m, k) == IF k \in DOMAIN m THEN m[k] ELSE 0

\* normalize_relationships without `if not child_id` and `if parent_id`
normalize_relationships_unchecked(child_iri, parent_iris, iri_to_id_map) ==
  [i \in 1..Len(parent_iris) |->
     <<MapGet(iri_to_id_map, child_iri),
       MapGet(iri_to_id_map, extract_iri_from_href(parent_iris[i]))>>]

RECURSIVE RelationshipsOf(_, _, _)
RelationshipsOf(child_id, parent_iris, iri_to_id_map) ==
  IF parent_iris = <<>> THEN <<>>
  ELSE LET parent_id == MapGet(iri_to_id_map, extract_iri_from_href(Head(parent_iris)))
       IN (IF parent_id # 0 THEN <<<<child_id, parent_id>>>> ELSE <<>>)
          \o RelationshipsOf(child_id, Tail(parent_iris), iri_to_id_map)

normalize_relationships(child_iri, parent_iris, iri_to_id_map) ==
  LET child_id == MapGet(iri_to_id_map, child_iri) IN
  IF child_id = 0 THEN <<>>
  ELSE RelationshipsOf(child_id, parent_iris, iri_to_id_map)

RECURSIVE normalize_mesh_xrefs(_, _)
normalize_mesh_xrefs(term_id, mesh_ids_list) ==
  IF mesh_ids_list = <<>> THEN <<>>
  ELSE LET mesh_id == Strip(Head(mesh_ids_list)) IN
       (IF Head(mesh_ids_list) # <<>> /\ mesh_id # <<>>
        THEN <<[term_id |-> term_id, mesh_id |-> mesh_id, database |-> "MSH"]>>
        ELSE <<>>)
       \o normalize_mesh_xrefs(term_id, Tail(mesh_ids_list))

\* hashlib.sha256(content).hexdigest(): an injective image of the content.
sha256_hexdigest(content) == Some(<<"#">> \o content)

\* compute_term_hash without the two sorted() calls of lines 203-204
compute_term_hash_unsorted(term_dict, synonyms_list, parent_iris) ==
  LET label == term_dict.label
      description == IF term_dict.description.some /\ term_dict.description.val # <<>>
                     THEN term_dict.description.val ELSE <<>>
      content == label \o <<"|">> \o description \o <<"|">>
                 \o Join(<<",">>, synonyms_list) \o <<"|">>
                 \o Join(<<",">>, parent_iris)
  IN sha256_hexdigest(content)

\* compute_term_hash given the parents a later resolution would find
compute_term_hash_resolved(term_dict, synonyms_list, parent_iris) ==
  LET label == term_dict.label
      description == IF term_dict.description.some /\ term_dict.description.val # <<>>
                     THEN term_dict.description.val ELSE <<>>
      content == label \o <<"|">> \o description \o <<"|">>
                 \o Join(<<",">>, Sorted(synonyms_list)) \o <<"|">>
                 \o Join(<<",">>, Sorted(parent_iris \o << <<"x">> >>))
  IN sha256_hexdigest(content)

compute_term_hash(term_dict, synonyms_list, parent_iris) ==
  LET label == term_dict.label
      description == IF term_dict.description.some /\ term_dict.description.val # <<>>
                     THEN term_dict.description.val ELSE <<>>
      sorted_synonyms == Sorted(synonyms_list)
      sorted_parents == Sorted(parent_iris)
      content == label \o <<"|">> \o description \o <<"|">>
                 \o Join(<<",">>, sorted_synonyms) \o <<"|">>
                 \o Join(<<",">>, sorted_parents)
  IN sha256_hexdigest(content)

add_content_hash_to_term(term_dict, synonyms_list, parent_iris) ==
  [term_dict EXCEPT !.content_hash =
     compute_term_hash(term_dict, synonyms_list, parent_iris)]

(***************************************************************************)
(* Loader: src/src/loaders/postgres_loader.py.  The tables of the store.   *)
(***************************************************************************)
EmptyStore ==
  [efo_terms |-> {}, efo_synonyms |-> <<>>, efo_relationships |-> <<>>,
   mesh_cross_references |-> <<>>, pipeline_executions |-> <<>>, next_id |-> 1]

\* id of the efo_terms row with this term_id, as a set (empty: no such row)
TermIdsOf(db, term_id) == {r.id : r \in {x \in db.efo_terms : x.term_id = term_id}}

\* INSERT INTO efo_terms ... ON CONFLICT (term_id) DO UPDATE SET ...
UpsertTerm(db, term) ==
  IF TermIdsOf(db, term.term_id) # {}
  THEN [db EXCEPT !.efo_terms =
          {IF r.term_id = term.term_id
           THEN [r EXCEPT !.iri = term.iri, !.label = term.label,
                          !.description = term.description,
                          !.content_hash = term.content_hash]
           ELSE r : r \in db.efo_terms}]
  ELSE [db EXCEPT !.efo_terms = @ \cup
          {[id |-> db.next_id, term_id |-> term.term_id, iri |-> term.iri,
            label |-> term.label, description |-> term.description,
            content_hash |-> term.content_hash]},
        !.next_id = @ + 1]

\* an INSERT with no conflict clause
InsertAlways(table, r, conflict) == Append(table, r)

\* the rows of a table (a sequence, in insertion order) with r appended
\* unless the conflict test finds it there: ON CONFLICT ... DO NOTHING
InsertUnlessConflict(table, r, conflict) ==
  IF conflict THEN table ELSE Append(table, r)

\* INSERT INTO efo_synonyms SELECT id, syn FROM efo_terms WHERE term_id = ...
\* ON CONFLICT (term_id, synonym) DO NOTHING
InsertSynonym(db, row) ==
  IF TermIdsOf(db, row.term_id) = {} THEN db
  ELSE LET i == CHOOSE j \in TermIdsOf(db, row.term_id) : TRUE
           r == [term_id |-> i, synonym |-> row.synonym]
       IN [db EXCEPT !.efo_synonyms =
             InsertUnlessConflict(@, r,
               \E x \in Range(@) : x.term_id = i /\ x.synonym = row.synonym)]

\* INSERT INTO efo_relationships VALUES (child, parent, 'is_a')
\* ON CONFLICT (child_id, parent_id) DO NOTHING
InsertRelationship(db, pair) ==
  LET r == [child_id |-> pair[1], parent_id |-> pair[2], relationship_type |-> "is_a"]
  IN [db EXCEPT !.efo_relationships =
        InsertUnlessConflict(@, r,
          \E x \in Range(@) : x.child_id = pair[1] /\ x.parent_id = pair[2])]

\* INSERT INTO mesh_cross_references SELECT id, mesh, database FROM efo_terms
\* WHERE term_id = ... ON CONFLICT (term_id, mesh_id) DO NOTHING
InsertMeshXref(db, row) ==
  IF TermIdsOf(db, row.term_id) = {} THEN db
  ELSE LET i == CHOOSE j \in TermIdsOf(db, row.term_id) : TRUE
           r == [term_id |-> i, mesh_id |-> row.mesh_id, database |-> row.database]
       IN [db EXCEPT !.mesh_cross_references =
             InsertUnlessConflict(@, r,
               \E x \in Range(@) : x.term_id = i /\ x.mesh_id = row.mesh_id)]

\* the data quality filter of bulk_insert_synonyms
RECURSIVE valid_synonyms(_)
valid_synonyms(batch) ==
  IF batch = <<>> THEN <<>>
  ELSE LET r == Head(batch) IN
       (IF Strip(r.term_id) # <<>> /\ Strip(r.synonym) # <<>>
        THEN <<[term_id |-> Strip(r.term_id), synonym |-> Strip(r.synonym)]>>
        ELSE <<>>) \o valid_synonyms(Tail(batch))

\* the data quality filter of bulk_insert_mesh_xrefs
RECURSIVE valid_xrefs(_)
valid_xrefs(batch) ==
  IF batch = <<>> THEN <<>>
  ELSE LET r == Head(batch) IN
       (IF Strip(r.term_id) # <<>> /\ Strip(r.mesh_id) # <<>>
        THEN <<[term_id |-> Strip(r.term_id), mesh_id |-> Strip(r.mesh_id),
                database |-> r.database]>>
        ELSE <<>>) \o valid_xrefs(Tail(batch))

\* The parameter tuples a bulk_insert_* call hands to cursor.executemany.
Statements(kind, batch) ==
  CASE kind = "synonyms" -> valid_synonyms(batch)
    [] kind = "mesh_xrefs" -> valid_xrefs(batch)
    [] OTHER -> batch

\* One statement of executemany.
ExecuteRow(db, kind, row) ==
  CASE kind = "terms" -> UpsertTerm(db, row)
    [] kind = "synonyms" -> InsertSynonym(db, row)
    [] kind = "relationships" -> InsertRelationship(db, row)
    [] kind = "mesh_xrefs" -> InsertMeshXref(db, row)

\* cursor.executemany(query, rows) run to its end
RECURSIVE ExecuteMany(_, _, _)
ExecuteMany(db, kind, rows) ==
  IF rows = <<>> THEN db
  ELSE ExecuteMany(ExecuteRow(db, kind, Head(rows)), kind, Tail(rows))

\* INSERT INTO pipeline_executions ... 'running' RETURNING execution_id
InsertExecution(db, execution_mode) ==
  [db EXCEPT !.pipeline_executions =
     Append(@, [execution_mode |-> execution_mode, status |-> "running",
                terms_fetched |-> 0, terms_inserted |-> 0, terms_updated |-> 0,
                terms_skipped |-> 0, error_message |-> "null"])]

NoStats == [terms_fetched |-> 0, terms_inserted |-> 0, terms_updated |-> 0,
            terms_skipped |-> 0]

\* UPDATE pipeline_executions SET ... WHERE execution_id = %s
UpdateExecution(db, execution_id, status, stats, error_message) ==
  IF execution_id \in 1..Len(db.pipeline_executions)
  THEN [db EXCEPT !.pipeline_executions[execution_id] =
          [@ EXCEPT !.status = status,
                    !.terms_fetched = stats.terms_fetched,
                    !.terms_inserted = stats.terms_inserted,
                    !.terms_updated = stats.terms_updated,
                    !.terms_skipped = stats.terms_skipped,
                    !.error_message = error_message]]
  ELSE db

\* SELECT term_id, content_hash FROM efo_terms WHERE content_hash IS NOT NULL
\* get_stored_term_hashes answering with no row
get_stored_term_hashes_none(db) == <<>>

get_stored_term_hashes(db) ==
  LET rows == {r \in db.efo_terms : r.content_hash.some} IN
  [t \in {r.term_id : r \in rows} |->
     (CHOOSE r \in rows : r.term_id = t).content_hash]

\* SELECT iri, id FROM efo_terms, collected into a dict
get_iri_to_id_map(db) ==
  [i \in {r.iri : r \in db.efo_terms} |->
     (CHOOSE r \in db.efo_terms : r.iri = i).id]

(***************************************************************************)
(* The records a source can serve (raw term JSON objects).                 *)
(***************************************************************************)
NoParents == [kind |-> "none", hrefs |-> <<>>]

\* a valid term with a description, two synonyms, a parents link and a MeSH
\* cross-reference
R1 == [obo_id |-> PyStr(<<"T", "1">>), iri |-> PyStr(<<"I", "1">>),
       label |-> PyStr(<<"a">>), description |-> << <<"d">> >>,
       synonyms |-> << <<"y">>, <<"x">> >>,
       parents |-> [kind |-> "dict", hrefs |-> << <<"U", "1">> >>],
       obo_xref |-> << [mesh_db |-> TRUE, id |-> <<"D", "1">>] >>,
       db_xref |-> << <<"M", "S", "H", ":", "D", "1">> >>]

\* a valid term whose label needs trimming, one synonym, nothing else
R2 == [obo_id |-> PyStr(<<"T", "2">>), iri |-> PyStr(<<"I", "2">>),
       label |-> PyStr(<<" ", "b">>), description |-> <<>>,
       synonyms |-> << <<"x">> >>, parents |-> NoParents,
       obo_xref |-> <<>>, db_xref |-> <<>>]

\* an invalid term: its label is blank
R3 == [obo_id |-> PyStr(<<"T", "3">>), iri |-> PyStr(<<"I", "3">>),
       label |-> PyStr(<<" ">>), description |-> <<>>,
       synonyms |-> << <<"x">> >>, parents |-> NoParents,
       obo_xref |-> <<>>, db_xref |-> <<>>]

Records == {R1, R2, R3}

\* records that lack a required field, each with a synonym, a parents link
\* and MeSH cross-references of its own: a null label, an absent iri, an
\* empty obo_id, a label of white space
R4 == [obo_id |-> PyStr(<<"T", "3">>), iri |-> PyStr(<<"I", "3">>),
       label |-> PyNone, description |-> <<>>,
       synonyms |-> << <<"b">> >>,
       parents |-> [kind |-> "dict", hrefs |-> << <<"U", "3">> >>],
       obo_xref |-> << [mesh_db |-> TRUE, id |-> <<"D", "3">>] >>,
       db_xref |-> << <<"M", "S", "H", ":", "D", "3">> >>]
R5 == [R4 EXCEPT !.label = PyStr(<<"a">>), !.iri = Absent]
R6 == [R4 EXCEPT !.label = PyStr(<<"a">>), !.obo_id = PyStr(<<>>)]
R7 == [R4 EXCEPT !.label = PyStr(<<" ">>)]

IncompleteRecords == {R4, R5, R6, R7}

\* The parents sub-resource behind a link URL: the IRIs of the embedded terms.
ParentsAt(url) ==
  IF url = <<"U", "1">> THEN << <<"I", "2">>, <<"I", "3">> >>
  ELSE IF Len(url) > 1 /\ url[1] = "U" THEN << <<"I">> \o Tail(url) >>
  ELSE <<>>

\* all sequences over S of length at most n
SeqsUpTo(S, n) == UNION {[1..k -> S] : k \in 0..n}

\* The page of a source the server answers a request for page k (0-based)
\* with: the embedded terms and the pagination metadata.
PageResponse(src, k) ==
  [terms |-> IF k + 1 \in 1..Len(src.pages) THEN src.pages[k + 1] ELSE <<>>,
   totalPages |-> src.totalPages, number |-> k]

\* a record list cut into pages of n records
RECURSIVE Paginate(_, _)
Paginate(recs, n) ==
  IF recs = <<>> THEN <<>>
  ELSE IF Len(recs) <= n THEN <<recs>>
  ELSE <<SubSeq(recs, 1, n)>> \o Paginate(SubSeq(recs, n + 1, Len(recs)), n)

(***************************************************************************)
(* State.                                                                  *)
(***************************************************************************)
VARIABLES
  source,             \* the HTTP source: [pages, totalPages]
  config,             \* execution_mode, batch_size, record_limit,
                      \* ols_request_delay
  gen,                \* the fetch_all_terms generator and its page fetch;
                      \* gen.stop is the break it logged
  page_calls,         \* history: page numbers passed to fetch_terms_page
  yielded,            \* history: records yielded by fetch_all_terms
  pc,                 \* position of main
  connection,         \* "none" | "open" | "closed"
  execution_id,       \* 0 stands for None
  stats,
  stored_hashes,
  terms_batch, synonyms_batch, relationships_batch, mesh_xrefs_batch,
  parent_urls_map, mesh_xrefs_map, parent_refs_map, iri_to_id_map,
  todo,               \* keys left to a for loop over a dict
  committed,          \* the store as other sessions see it
  working,            \* the store as the connection's transaction sees it
  txn,                \* "idle" | "intrans" | "aborted"
  op,                 \* the bulk_insert_* call in progress
  flush,              \* history: the last flush begun, the store before it,
                      \* and the bulk_insert_* calls made so far
  exc,                \* text of the exception main caught
  exit_code,          \* -1 while running
  snapshots,          \* history: the domain tables after each completed run
  resolver            \* a call of batch_fetch_parents: its mode, loop
                      \* position, requests outstanding and results

fetchVars == <<gen, page_calls, yielded>>
memVars == <<stats, stored_hashes, terms_batch, synonyms_batch,
             relationships_batch, mesh_xrefs_batch, parent_urls_map,
             mesh_xrefs_map, parent_refs_map, iri_to_id_map, todo>>
dbVars == <<committed, working, txn, op, flush>>
ctlVars == <<pc, connection, execution_id, exc, exit_code, snapshots>>
vars == <<source, config, resolver, fetchVars, memVars, dbVars, ctlVars>>

(***************************************************************************)
(* Fetcher: fetch_all_terms and fetch_terms_page.                          *)
(***************************************************************************)
LimitNone == [some |-> FALSE, val |-> 0]
Limit(n) == [some |-> TRUE, val |-> n]

\* a limit test that lets one more term through
LimitReachedLate(limit, terms_yielded) ==
  limit.some /\ limit.val # 0 /\ terms_yielded > limit.val

\* `if limit is not None and terms_yielded >= limit`: 0 taken as a limit
LimitReachedAtZero(limit, terms_yielded) ==
  limit.some /\ terms_yielded >= limit.val

\* `if limit and terms_yielded >= limit`
LimitReached(limit, terms_yielded) ==
  limit.some /\ limit.val # 0 /\ terms_yielded >= limit.val

max_retries == 3

\* sizes of the URL lists tried: up to MaxSyncUrls on the sequential path,
\* and ExtraUrls beyond one full group on the concurrent one
MaxSyncUrls == 2
ExtraUrls == 1

\* config.ols_request_delay, in the time unit of retry_delay: none, or one
Delays == {0, 1}

\* gen.log is the history of the fetch_terms_page call in progress: its
\* requests with the answer each got, and its sleeps.  It is kept when
\* gen.trace is set and left empty otherwise.
LogGet(answer) == [e |-> "get", answer |-> answer, why |-> "", secs |-> 0]
LogSleep(why, secs) == [e |-> "sleep", answer |-> "", why |-> why, secs |-> secs]

NewGen(limit) ==
  [pc |-> "top", limit |-> limit, page_number |-> 0, terms_yielded |-> 0,
   terms |-> <<>>, idx |-> 0, total_pages |-> 0, current_page |-> 0,
   attempt |-> 0, retry_delay |-> 0, stop |-> "", log |-> <<>>, result |-> "",
   trace |-> FALSE]

\* the log of g with entries added
Logged(g, entries) == IF g.trace THEN g.log \o entries ELSE g.log

\* main is inside next() of the generator
Driving == pc = "for_next"

\* top of `while True`: the limit test, then the call of fetch_terms_page
GenTop ==
  /\ Driving /\ gen.pc = "top"
  /\ IF LimitReached(gen.limit, gen.terms_yielded)
     THEN /\ gen' = [gen EXCEPT !.pc = "done", !.stop = "limit"]
          /\ UNCHANGED page_calls
     ELSE /\ gen' = [gen EXCEPT !.pc = "request", !.attempt = 0, !.retry_delay = 1,
                                !.log = <<>>, !.result = ""]
          /\ page_calls' = Append(page_calls, gen.page_number)
  /\ UNCHANGED <<source, resolver, config, yielded, memVars, dbVars, ctlVars>>

\* `if delay > 0: time.sleep(delay)`
CourtesySleep(delay) == IF delay > 0 THEN <<LogSleep("courtesy", delay)>> ELSE <<>>

\* a 200 answer after which the loop goes on to its next attempt
HttpOkNoReturn ==
  /\ Driving /\ gen.pc = "request" /\ gen.attempt + 1 < max_retries
  /\ gen' = [gen EXCEPT !.attempt = @ + 1,
                        !.log = Logged(gen, <<LogGet("200")>>)]
  /\ UNCHANGED <<source, resolver, config, page_calls, yielded, memVars, dbVars, ctlVars>>

\* an attempt of fetch_terms_page answered 200 with a JSON body: the courtesy
\* delay, then the parsed payload is returned
HttpOk ==
  /\ Driving /\ gen.pc = "request"
  /\ gen' = [gen EXCEPT !.pc = "returned", !.result = "payload",
                        !.log = Logged(gen, <<LogGet("200")>>
                                         \o CourtesySleep(config.ols_request_delay))]
  /\ UNCHANGED <<source, resolver, config, page_calls, yielded, memVars, dbVars, ctlVars>>

\* answers that make an attempt fail: 429, 5xx, another 4xx, a network error
\* or timeout (RequestException), a 200 whose body is not JSON (response.json()
\* raises requests' JSONDecodeError, a RequestException)
HttpFailures == {"429", "5xx", "4xx", "neterr", "badjson"}

\* a sleep of one unit whatever the attempt
RetrySleepFlat(kind, retry_delay) == LogSleep("retry", 1)

\* the sleep of the except clause that handles the answer
RetrySleep(kind, retry_delay) ==
  IF kind = "429" THEN LogSleep("retry", retry_delay * 2)
  ELSE LogSleep("retry", retry_delay)

\* a 429 that does not use up an attempt
FetchFailedRateLimitFree(g, kind, delay) ==
  IF kind = "4xx"
  THEN [g EXCEPT !.pc = "returned", !.result = "None",
                 !.log = Logged(g, <<LogGet(kind)>>)]
  ELSE IF kind = "429"
  THEN [g EXCEPT !.retry_delay = @ * 2,
                 !.log = Logged(g, <<LogGet(kind), RetrySleep(kind, g.retry_delay)>>)]
  ELSE [g EXCEPT !.pc = IF g.attempt + 1 >= max_retries THEN "returned" ELSE @,
                 !.result = IF g.attempt + 1 >= max_retries THEN "None" ELSE @,
                 !.attempt = @ + 1, !.retry_delay = @ * 2,
                 !.log = Logged(g, <<LogGet(kind)>>
                           \o (IF kind = "badjson" THEN CourtesySleep(delay) ELSE <<>>)
                           \o <<RetrySleep(kind, g.retry_delay)>>)]

\* every failure retried, 4xx included
FetchFailedRetriesAll(g, kind, delay) ==
  [g EXCEPT !.pc = IF g.attempt + 1 >= max_retries THEN "returned" ELSE @,
            !.result = IF g.attempt + 1 >= max_retries THEN "None" ELSE @,
            !.attempt = @ + 1, !.retry_delay = @ * 2,
            !.log = Logged(g, <<LogGet(kind), LogSleep("retry", g.retry_delay)>>)]

\* attempts counted afresh once they are used up
FetchFailedRestarts(g, kind, delay) ==
  IF kind = "4xx"
  THEN [g EXCEPT !.pc = "returned", !.result = "None",
                 !.log = Logged(g, <<LogGet(kind)>>)]
  ELSE [g EXCEPT !.attempt = IF @ + 1 >= max_retries THEN 0 ELSE @ + 1,
                 !.retry_delay = IF g.attempt + 1 >= max_retries THEN 1 ELSE @ * 2,
                 !.log = Logged(g, <<LogGet(kind)>>)]

\* failures retried without a cap on the attempts
FetchFailedUncapped(g, kind, delay) ==
  IF kind = "4xx"
  THEN [g EXCEPT !.pc = "returned", !.result = "None",
                 !.log = Logged(g, <<LogGet(kind)>>)]
  ELSE [g EXCEPT !.attempt = @ + 1, !.retry_delay = @ * 2,
                 !.log = Logged(g, <<LogGet(kind), LogSleep("retry", g.retry_delay)>>)]

\* an attempt of fetch_terms_page that fails: a 4xx returns None at once, the
\* others sleep, double retry_delay and go to the next attempt; when
\* max_retries attempts are used up None is returned
FetchFailed(g, kind, delay) ==
  IF kind = "4xx"
  THEN [g EXCEPT !.pc = "returned", !.result = "None",
                 !.log = Logged(g, <<LogGet(kind)>>)]
  ELSE [g EXCEPT !.pc = IF g.attempt + 1 >= max_retries THEN "returned" ELSE @,
                 !.result = IF g.attempt + 1 >= max_retries THEN "None" ELSE @,
                 !.attempt = @ + 1, !.retry_delay = @ * 2,
                 !.log = Logged(g, <<LogGet(kind)>>
                           \o (IF kind = "badjson" THEN CourtesySleep(delay) ELSE <<>>)
                           \o <<RetrySleep(kind, g.retry_delay)>>)]

HttpFail ==
  /\ Driving /\ gen.pc = "request"
  /\ \E kind \in HttpFailures :
       gen' = FetchFailed(gen, kind, config.ols_request_delay)
  /\ UNCHANGED <<source, resolver, config, page_calls, yielded, memVars, dbVars, ctlVars>>

\* fetch_all_terms raising where it logs "Failed to fetch page" and breaks
GenPageRaises ==
  /\ Driving /\ gen.pc = "returned"
  /\ LET response_data == PageResponse(source, gen.page_number) IN
     IF gen.result = "None"
     THEN /\ gen' = [gen EXCEPT !.pc = "done", !.stop = "failed",
                                !.result = "", !.attempt = 0, !.retry_delay = 0]
          /\ exc' = "RuntimeError" /\ pc' = "except_exception"
     ELSE /\ gen' = [gen EXCEPT !.pc = IF response_data.terms = <<>> THEN "done" ELSE "iter",
                                !.stop = IF response_data.terms = <<>> THEN "empty" ELSE @,
                                !.terms = response_data.terms, !.idx = 1,
                                !.total_pages = response_data.totalPages,
                                !.current_page = response_data.number,
                                !.log = <<>>, !.result = "",
                                !.attempt = 0, !.retry_delay = 0]
          /\ UNCHANGED <<exc, pc>>
  /\ UNCHANGED <<source, resolver, config, page_calls, yielded, memVars, dbVars,
                 connection, execution_id, exit_code, snapshots>>

\* fetch_all_terms takes what fetch_terms_page returned: None ends the
\* retrieval, so does a page without terms, else the page is iterated
GenPage ==
  /\ Driving /\ gen.pc = "returned"
  /\ LET response_data == PageResponse(source, gen.page_number) IN
     gen' = IF gen.result = "None"
            THEN [gen EXCEPT !.pc = "done", !.stop = "failed",
                             !.result = "", !.attempt = 0, !.retry_delay = 0]
            ELSE [gen EXCEPT !.pc = IF response_data.terms = <<>> THEN "done" ELSE "iter",
                             !.stop = IF response_data.terms = <<>> THEN "empty" ELSE @,
                             !.terms = response_data.terms, !.idx = 1,
                             !.total_pages = response_data.totalPages,
                             !.current_page = response_data.number,
                             !.log = <<>>, !.result = "",
                             !.attempt = 0, !.retry_delay = 0]
  /\ UNCHANGED <<source, resolver, config, page_calls, yielded, memVars, dbVars, ctlVars>>

\* a last-page test that is one page late
LastPageLate(g) == g.total_pages > 0 /\ g.current_page >= g.total_pages

\* `total_pages > 0 and current_page >= total_pages - 1`
LastPage(g) == g.total_pages > 0 /\ g.current_page >= g.total_pages - 1

\* after the for loop over a page: stop on the last page, else the next page
AfterPage(g) ==
  IF LastPage(g) THEN [g EXCEPT !.pc = "done", !.stop = "last"]
  ELSE [g EXCEPT !.pc = "top", !.page_number = @ + 1]

\* one step of `for term in terms`: yield the next term, or leave the loop
\* (end of the page, or the limit) and do the pagination test
GenIter ==
  /\ Driving /\ gen.pc = "iter"
  /\ IF gen.idx <= Len(gen.terms) /\ ~LimitReached(gen.limit, gen.terms_yielded)
     THEN /\ gen' = [gen EXCEPT !.pc = "yielded"]
          /\ yielded' = Append(yielded, gen.terms[gen.idx])
     ELSE /\ gen' = AfterPage(gen)
          /\ UNCHANGED yielded
  /\ UNCHANGED <<source, resolver, config, page_calls, memVars, dbVars, ctlVars>>

\* the generator resumed after its yield: terms_yielded += 1
GenResume ==
  /\ Driving /\ gen.pc = "resumed"
  /\ gen' = [gen EXCEPT !.pc = "iter", !.terms_yielded = @ + 1, !.idx = @ + 1]
  /\ UNCHANGED <<source, resolver, config, page_calls, yielded, memVars, dbVars, ctlVars>>

\* a caller that only iterates: it takes the term and asks for the next
Consume ==
  /\ Driving /\ gen.pc = "yielded"
  /\ gen' = [gen EXCEPT !.pc = "resumed"]
  /\ UNCHANGED <<source, resolver, config, page_calls, yielded, memVars, dbVars, ctlVars>>

Fetcher == GenTop \/ HttpOk \/ HttpFail \/ GenPage \/ GenIter \/ GenResume

\* sources given to the fetcher alone: any pages, totalPages reported
\* truthfully or not at all (0)
FetchSources ==
  {[pages |-> p, totalPages |-> t] :
     p \in SeqsUpTo(SeqsUpTo({R1, R2}, MaxPageSize), MaxPages),
     t \in 0..MaxPages}

\* limits a caller can pass: None, or an integer
FetchLimits == {LimitNone} \cup {Limit(n) : n \in 0..MaxLimit}

(***************************************************************************)
(* Parent resolver: batch_fetch_parents, its concurrent path               *)
(* batch_fetch_parents_async and its fallback batch_fetch_parents_sync.     *)
(***************************************************************************)
batch_size == 50
sync_max_retries == 3

\* a dict without keys, and the assignment d[key] = value
EmptyMap == [k \in {} |-> <<>>]
Put(d, key, value) ==
  [k \in DOMAIN d \cup {key} |-> IF k = key THEN value ELSE d[k]]

NoResolver ==
  [mode |-> "idle", pc |-> "", parent_urls |-> <<>>, results |-> EmptyMap,
   i |-> 0, outstanding |-> {}, batch_results |-> EmptyMap,
   answers |-> EmptyMap, pauses |-> <<>>,
   idx |-> 0, attempt |-> 0, retry_delay |-> 0, log |-> <<>>]

\* the resolver does nothing to the rest of the program
ResolverOnly ==
  UNCHANGED <<source, config, fetchVars, memVars, dbVars, ctlVars>>

\* asyncio.run starts batch_fetch_parents_async
AsyncRun ==
  /\ resolver.mode = "wrapper"
  /\ resolver' = [resolver EXCEPT !.mode = "async", !.pc = "for"]
  /\ ResolverOnly

\* what a request of fetch_parent_iris_async can meet: a 200 with the
\* parents, another status, or an exception (connection, timeout, body)
AsyncAnswers == {"200", "non200", "exception"}

\* positions of parent_urls whose request may fail; the others answer 200
FailCandidates == {1, 2, batch_size + 1}

\* fetch_parent_iris_async(session, parent_url), given the answer it meets
fetch_parent_iris_async(parent_url, answer) ==
  IF answer = "200" THEN ParentsAt(parent_url) ELSE <<>>

\* top of `for i in range(0, len(parent_urls), batch_size)`: the tasks of
\* the next group are handed to gather, or the loop is over
AsyncGroup ==
  /\ resolver.mode = "async" /\ resolver.pc = "for"
  /\ resolver' =
       IF resolver.i < Len(resolver.parent_urls)
       THEN [resolver EXCEPT
               !.pc = "gather",
               !.outstanding =
                 {p \in 1..Len(resolver.parent_urls) :
                    p > resolver.i /\ p <= resolver.i + batch_size},
               !.batch_results = EmptyMap]
       ELSE [resolver EXCEPT !.pc = "return"]
  /\ ResolverOnly

\* the lowest and the highest of a set of positions
Ends(S) ==
  {p \in S : \A q \in S : p <= q} \cup {p \in S : \A q \in S : p >= q}

\* one outstanding request completes, with the answer it met.  Requests
\* complete from either end of those outstanding.
AsyncComplete ==
  /\ resolver.mode = "async" /\ resolver.pc = "gather"
  /\ \E p \in Ends(resolver.outstanding) :
       \E answer \in IF p \in FailCandidates THEN AsyncAnswers ELSE {"200"} :
         resolver' =
           [resolver EXCEPT
              !.outstanding = @ \ {p},
              !.batch_results =
                Put(@, p, fetch_parent_iris_async(resolver.parent_urls[p], answer)),
              !.answers = Put(@, p, answer)]
  /\ ResolverOnly

\* a store loop that leaves out the URLs without parents
AsyncStoredNonEmpty(r) ==
  LET done == {p \in DOMAIN r.batch_results : r.batch_results[p] # <<>>} IN
  [u \in DOMAIN r.results \cup {r.parent_urls[p] : p \in done} |->
     IF \E p \in done : r.parent_urls[p] = u
     THEN r.batch_results[CHOOSE p \in done : r.parent_urls[p] = u]
     ELSE r.results[u]]

\* `for url, result in zip(batch, batch_results): results[url] = result`
AsyncStored(r) ==
  LET done == DOMAIN r.batch_results IN
  [u \in DOMAIN r.results \cup {r.parent_urls[p] : p \in done} |->
     IF \E p \in done : r.parent_urls[p] = u
     THEN r.batch_results[CHOOSE p \in done : r.parent_urls[p] = u]
     ELSE r.results[u]]

\* a pause after every group
PauseAlways(r, delay) == delay > 0

\* `if delay > 0 and i + batch_size < len(parent_urls)`
PauseDue(r, delay) == delay > 0 /\ r.i + batch_size < Len(r.parent_urls)

\* gather has every result of the group: they are stored, the pause is
\* taken when it is due, and the loop goes to its next group
AsyncStore ==
  /\ resolver.mode = "async" /\ resolver.pc = "gather"
  /\ resolver.outstanding = {}
  /\ resolver' =
       [resolver EXCEPT
          !.results = AsyncStored(resolver),
          !.pauses = IF PauseDue(resolver, config.ols_request_delay)
                     THEN Append(@, resolver.i) ELSE @,
          !.batch_results = EmptyMap,
          !.i = @ + batch_size,
          !.pc = "for"]
  /\ ResolverOnly

\* asyncio.run raised: the except clause calls batch_fetch_parents_sync
AsyncFallback ==
  /\ resolver.mode = "wrapper"
  /\ Len(resolver.parent_urls) <= MaxSyncUrls
  /\ resolver' = [resolver EXCEPT !.mode = "sync", !.pc = "for"]
  /\ ResolverOnly

\* what an attempt of batch_fetch_parents_sync can meet: a status, or an
\* exception of session.get or of the parsing ("other")
SyncAnswers == {"200", "404", "429", "5xx", "ssl", "conn", "timeout", "other"}

\* top of `for idx, url in enumerate(parent_urls)`
SyncUrl ==
  /\ resolver.mode = "sync" /\ resolver.pc = "for"
  /\ resolver' =
       IF resolver.idx < Len(resolver.parent_urls)
       THEN [resolver EXCEPT !.pc = "attempt", !.attempt = 0,
                             !.retry_delay = 1, !.log = <<>>]
       ELSE [resolver EXCEPT !.pc = "return"]
  /\ ResolverOnly

\* the retry loop of a URL is left: the next URL
NextUrl(r) ==
  [r EXCEPT !.pc = "for", !.idx = @ + 1, !.attempt = 0, !.retry_delay = 0]

\* `results[url] = value`
Stored(r, value) ==
  [r EXCEPT !.results = Put(@, r.parent_urls[r.idx + 1], value)]

\* a retry loop that treats a 404 like any other status
SyncAnsweredRetries404(r, answer) ==
  LET url == r.parent_urls[r.idx + 1]
      more == r.attempt < sync_max_retries - 1
      seen == [r EXCEPT !.log = Append(@, answer)]
      Again(d) == [seen EXCEPT !.attempt = @ + 1, !.retry_delay = d]
  IN CASE answer = "200" -> NextUrl(Stored(seen, ParentsAt(url)))
       [] answer \in {"ssl", "other"} -> NextUrl(Stored(seen, <<>>))
       [] answer = "429" ->
            IF more THEN Again(r.retry_delay * 2) ELSE NextUrl(seen)
       [] answer \in {"404", "5xx", "conn"} ->
            IF more THEN Again(r.retry_delay * 2) ELSE NextUrl(Stored(seen, <<>>))
       [] answer = "timeout" ->
            IF more THEN Again(r.retry_delay) ELSE NextUrl(Stored(seen, <<>>))

\* one attempt of the retry loop, given the answer it meets
SyncAnswered(r, answer) ==
  LET url == r.parent_urls[r.idx + 1]
      more == r.attempt < sync_max_retries - 1
      seen == [r EXCEPT !.log = Append(@, answer)]
      Again(d) == [seen EXCEPT !.attempt = @ + 1, !.retry_delay = d]
  IN CASE answer = "200" -> NextUrl(Stored(seen, ParentsAt(url)))
       [] answer \in {"404", "ssl", "other"} -> NextUrl(Stored(seen, <<>>))
       [] answer = "429" ->
            IF more THEN Again(r.retry_delay * 2) ELSE NextUrl(seen)
       [] answer \in {"5xx", "conn"} ->
            IF more THEN Again(r.retry_delay * 2) ELSE NextUrl(Stored(seen, <<>>))
       [] answer = "timeout" ->
            IF more THEN Again(r.retry_delay) ELSE NextUrl(Stored(seen, <<>>))

SyncAttempt ==
  /\ resolver.mode = "sync" /\ resolver.pc = "attempt"
  /\ \E answer \in SyncAnswers : resolver' = SyncAnswered(resolver, answer)
  /\ ResolverOnly

Resolver ==
  \/ AsyncRun \/ AsyncGroup \/ AsyncComplete \/ AsyncStore
  \/ AsyncFallback \/ SyncUrl \/ SyncAttempt

NoOp == [kind |-> "none", rows |-> <<>>, pos |-> 0]
NoFlush ==
  [kind |-> "none", rows |-> <<>>, state |-> "none",
   pre |-> EmptyStore, calls |-> <<>>]

IdleMain ==
  /\ stats = NoStats /\ stored_hashes = <<>>
  /\ terms_batch = <<>> /\ synonyms_batch = <<>>
  /\ relationships_batch = <<>> /\ mesh_xrefs_batch = <<>>
  /\ parent_urls_map = <<>> /\ mesh_xrefs_map = <<>>
  /\ parent_refs_map = <<>> /\ iri_to_id_map = <<>> /\ todo = <<>>
  /\ txn = "idle" /\ op = NoOp /\ flush = NoFlush
  /\ connection = "none" /\ execution_id = 0 /\ exc = "" /\ exit_code = -1
  /\ snapshots = <<>>
  /\ resolver = NoResolver

InitFetch ==
  /\ source \in {s \in FetchSources : s.totalPages \in {0, Len(s.pages)}}
  /\ config = [execution_mode |-> "test", batch_size |-> 1, record_limit |-> 0,
               ols_request_delay |-> 0]
  /\ \E l \in FetchLimits : gen = NewGen(l)
  /\ page_calls = <<>> /\ yielded = <<>>
  /\ pc = "for_next"
  /\ committed = EmptyStore /\ working = EmptyStore
  /\ IdleMain

NextFetch == Fetcher \/ Consume

SpecFetch == InitFetch /\ [][NextFetch]_vars

\* the fetcher alone over sources whose records are all alike, with a caller
\* that keeps iterating and requests that each return
InitFetchFair ==
  /\ source \in {s \in {[pages |-> p, totalPages |-> t] :
                          p \in SeqsUpTo(SeqsUpTo({R1}, MaxPageSize), MaxPages),
                          t \in 0..MaxPages} :
                   s.totalPages \in {0, Len(s.pages)}}
  /\ config = [execution_mode |-> "test", batch_size |-> 1, record_limit |-> 0,
               ols_request_delay |-> 0]
  /\ \E l \in FetchLimits : gen = NewGen(l)
  /\ page_calls = <<>> /\ yielded = <<>>
  /\ pc = "for_next"
  /\ committed = EmptyStore /\ working = EmptyStore
  /\ IdleMain

SpecFetchFair == InitFetchFair /\ [][NextFetch]_vars /\ WF_vars(NextFetch)

\* the URL lists given to the resolver alone: a few URLs, and a full group
\* with up to ExtraUrls more
Digits == <<"0", "1", "2", "3", "4", "5", "6", "7", "8", "9">>
UrlOf(n) ==
  IF n < 10 THEN <<"U", Digits[n + 1]>>
  ELSE <<"U", Digits[(n \div 10) + 1], Digits[(n % 10) + 1]>>
UrlCounts == (0..MaxSyncUrls) \cup (batch_size..(batch_size + ExtraUrls))

InitResolve ==
  /\ source = [pages |-> <<>>, totalPages |-> 0]
  /\ \E delay \in Delays :
       config = [execution_mode |-> "full", batch_size |-> 1, record_limit |-> 0,
                 ols_request_delay |-> delay]
  /\ gen = [NewGen(LimitNone) EXCEPT !.pc = "none"]
  /\ page_calls = <<>> /\ yielded = <<>>
  /\ committed = EmptyStore /\ working = EmptyStore
  /\ stats = NoStats /\ stored_hashes = <<>>
  /\ terms_batch = <<>> /\ synonyms_batch = <<>>
  /\ relationships_batch = <<>> /\ mesh_xrefs_batch = <<>>
  /\ parent_urls_map = <<>> /\ mesh_xrefs_map = <<>>
  /\ parent_refs_map = <<>> /\ iri_to_id_map = <<>> /\ todo = <<>>
  /\ txn = "idle" /\ op = NoOp /\ flush = NoFlush
  /\ pc = "resolve_parents"
  /\ connection = "open" /\ execution_id = 1 /\ exc = "" /\ exit_code = -1
  /\ snapshots = <<>>
  /\ \E n \in UrlCounts :
       resolver = [NoResolver EXCEPT !.mode = "wrapper",
                                     !.parent_urls = [k \in 1..n |-> UrlOf(k)]]

SpecResolve == InitResolve /\ [][Resolver]_vars

(***************************************************************************)
(* Orchestrator: main of src/src/pipeline.py.                              *)
(***************************************************************************)
\* A dict is a sequence of [k, v] in insertion order.
DictHas(d, k) == \E i \in 1..Len(d) : d[i].k = k
DictGet(d, k, default) ==
  IF DictHas(d, k) THEN d[CHOOSE i \in 1..Len(d) : d[i].k = k].v ELSE default
DictSet(d, k, v) ==
  IF DictHas(d, k)
  THEN [i \in 1..Len(d) |-> IF d[i].k = k THEN [k |-> k, v |-> v] ELSE d[i]]
  ELSE Append(d, [k |-> k, v |-> v])
DictKeys(d) == [i \in 1..Len(d) |-> d[i].k]
DictValues(d) == [i \in 1..Len(d) |-> d[i].v]

\* the domain tables of a store: everything but the run records and the
\* id sequence
DomainRows(db) ==
  [efo_terms |-> db.efo_terms, efo_synonyms |-> db.efo_synonyms,
   efo_relationships |-> db.efo_relationships,
   mesh_cross_references |-> db.mesh_cross_references]

\* a rollback that discards nothing
RollbackKeepsWrites(c, w) == w

\* connection.rollback(): the transaction's changes are discarded
Rollback(c, w) == c

\* connection.commit(): the transaction's changes become the store
Commit(c, w) == w

\* pipeline.py 107: postgres_loader.connect
Connect ==
  /\ pc = "connect"
  /\ connection' = "open"
  /\ pc' = "create_execution_record"
  /\ UNCHANGED <<source, resolver, config, fetchVars, memVars, dbVars, execution_id, exc,
                 exit_code, snapshots>>

\* postgres_loader.py 286-297: the INSERT of the run record and its commit
CreateExecutionRecord ==
  /\ pc = "create_execution_record"
  /\ working' = InsertExecution(working, config.execution_mode)
  /\ committed' = Commit(committed, working')
  /\ txn' = "idle"
  /\ pc' = "assign_execution_id"
  /\ UNCHANGED <<source, resolver, config, fetchVars, memVars, op, flush, connection,
                 execution_id, exc, exit_code, snapshots>>

\* postgres_loader.py 299-300 and pipeline.py 110: the id is returned and
\* bound to execution_id
AssignExecutionId ==
  /\ pc = "assign_execution_id"
  /\ execution_id' = Len(working.pipeline_executions)
  /\ pc' = "load_hashes"
  /\ UNCHANGED <<source, resolver, config, fetchVars, memVars, dbVars, connection, exc,
                 exit_code, snapshots>>

\* pipeline.py 116-151: stats, the stored hashes (incremental mode), the
\* empty buffers, the limit and the call of fetch_all_terms
\* pipeline.py 125-143 without the two tests of the execution mode
LoadStoredHashesAnyMode ==
  /\ pc = "load_hashes"
  /\ stored_hashes' = get_stored_term_hashes(working)
  /\ txn' = "intrans"
  /\ gen' = NewGen(Limit(config.record_limit))
  /\ pc' = "for_next"
  /\ UNCHANGED <<source, resolver, config, page_calls, yielded, stats, terms_batch,
                 synonyms_batch, relationships_batch, mesh_xrefs_batch,
                 parent_urls_map, mesh_xrefs_map, parent_refs_map, iri_to_id_map,
                 todo, committed, working, op, flush, connection, execution_id,
                 exc, exit_code, snapshots>>

LoadStoredHashes ==
  /\ pc = "load_hashes"
  /\ IF config.execution_mode = "incremental"
     THEN /\ stored_hashes' = get_stored_term_hashes(working)
          /\ txn' = "intrans"
     ELSE UNCHANGED <<stored_hashes, txn>>
  /\ gen' = NewGen(IF config.execution_mode = "test"
                   THEN Limit(config.record_limit) ELSE LimitNone)
  /\ pc' = "for_next"
  /\ UNCHANGED <<source, resolver, config, page_calls, yielded, stats, terms_batch,
                 synonyms_batch, relationships_batch, mesh_xrefs_batch,
                 parent_urls_map, mesh_xrefs_map, parent_refs_map, iri_to_id_map,
                 todo, committed, working, op, flush, connection, execution_id,
                 exc, exit_code, snapshots>>

\* pipeline.py 152-203: the body of the loop over fetched terms up to the
\* threshold tests
ProcessRecord ==
  /\ pc = "for_next" /\ gen.pc = "yielded"
  /\ LET term_json == gen.terms[gen.idx]
         term_data == extract_term_data(term_json)
         synonyms_list == extract_synonyms(term_json)
         parent_urls == extract_parent_iris(term_json)
         mesh_ids == extract_mesh_xrefs(term_json)
         nt == normalize_term(term_data)
         fetched == [stats EXCEPT !.terms_fetched = @ + 1]
         skipped == [fetched EXCEPT !.terms_skipped = @ + 1]
         normalized_term ==
           add_content_hash_to_term(nt.term, synonyms_list, <<>>)
         unchanged ==
           /\ config.execution_mode = "incremental"
           /\ normalized_term.term_id \in DOMAIN stored_hashes
           /\ stored_hashes[normalized_term.term_id] = normalized_term.content_hash
     IN IF nt.tag = "raise"
        THEN /\ stats' = fetched
             /\ exc' = "AttributeError"
             /\ pc' = "except_exception"
             /\ UNCHANGED <<gen, terms_batch, synonyms_batch, parent_urls_map,
                            mesh_xrefs_map>>
        ELSE IF nt.tag = "invalid" \/ unchanged
        THEN /\ stats' = skipped
             /\ gen' = [gen EXCEPT !.pc = "resumed"]
             /\ UNCHANGED <<pc, exc, terms_batch, synonyms_batch, parent_urls_map,
                            mesh_xrefs_map>>
        ELSE /\ stats' = fetched
             /\ terms_batch' = Append(terms_batch, normalized_term)
             /\ parent_urls_map' =
                  IF parent_urls # <<>>
                  THEN DictSet(parent_urls_map, normalized_term.iri, Head(parent_urls))
                  ELSE parent_urls_map
             /\ mesh_xrefs_map' =
                  IF mesh_ids # <<>>
                  THEN DictSet(mesh_xrefs_map, normalized_term.term_id, mesh_ids)
                  ELSE mesh_xrefs_map
             /\ synonyms_batch' =
                  IF synonyms_list # <<>>
                  THEN synonyms_batch
                       \o normalize_synonyms(normalized_term.term_id, synonyms_list)
                  ELSE synonyms_batch
             /\ gen' = [gen EXCEPT !.pc = "resumed"]
             /\ pc' = "flush_terms"
             /\ UNCHANGED exc
  /\ UNCHANGED <<source, resolver, config, page_calls, yielded, stored_hashes,
                 relationships_batch, mesh_xrefs_batch, parent_refs_map,
                 iri_to_id_map, todo, dbVars, connection, execution_id,
                 exit_code, snapshots>>

\* pipeline.py 147: the generator is exhausted, the for loop ends
\* the end of the loop without the final flushes of pipeline.py 216-224
EndOfTermsNoFinalFlush ==
  /\ pc = "for_next" /\ gen.pc = "done"
  /\ pc' = "resolve_parents"
  /\ UNCHANGED <<source, resolver, config, fetchVars, memVars, dbVars, connection,
                 execution_id, exc, exit_code, snapshots>>

EndOfTerms ==
  /\ pc = "for_next" /\ gen.pc = "done"
  /\ pc' = "final_terms"
  /\ UNCHANGED <<source, resolver, config, fetchVars, memVars, dbVars, connection,
                 execution_id, exc, exit_code, snapshots>>

\* The places of main that call a bulk_insert_* function: the entity, the
\* test that guards the call, and where main goes on afterwards.
FlushSites == {"flush_terms", "flush_synonyms", "final_terms", "final_synonyms",
               "rel_flush", "rel_final", "mesh_flush", "mesh_final"}

SiteKind(site) ==
  CASE site \in {"flush_terms", "final_terms"} -> "terms"
    [] site \in {"flush_synonyms", "final_synonyms"} -> "synonyms"
    [] site \in {"rel_flush", "rel_final"} -> "relationships"
    [] site \in {"mesh_flush", "mesh_final"} -> "mesh_xrefs"

BatchOf(kind) ==
  CASE kind = "terms" -> terms_batch
    [] kind = "synonyms" -> synonyms_batch
    [] kind = "relationships" -> relationships_batch
    [] kind = "mesh_xrefs" -> mesh_xrefs_batch

\* the threshold tests alone, no flush of what remains after a loop
SiteDueInLoopOnly(site) ==
  /\ site \in {"flush_terms", "flush_synonyms", "rel_flush", "mesh_flush"}
  /\ Len(BatchOf(SiteKind(site))) >= config.batch_size

\* `if len(batch) >= config.batch_size` inside a loop, `if batch` after it
SiteDue(site) ==
  IF site \in {"flush_terms", "flush_synonyms", "rel_flush", "mesh_flush"}
  THEN Len(BatchOf(SiteKind(site))) >= config.batch_size
  ELSE BatchOf(SiteKind(site)) # <<>>

SiteNext(site) ==
  CASE site = "flush_terms" -> "flush_synonyms"
    [] site = "flush_synonyms" -> "for_next"
    [] site = "final_terms" -> "final_synonyms"
    [] site = "final_synonyms" -> "resolve_parents"
    [] site = "rel_flush" -> "rel_loop"
    [] site = "rel_final" -> "mesh_start"
    [] site = "mesh_flush" -> "mesh_loop"
    [] site = "mesh_final" -> "update_success"

\* batch.clear() of the flushed entity, forgotten for the terms
ClearBatchKeepsTerms(kind) ==
  /\ terms_batch' = terms_batch
  /\ synonyms_batch' = IF kind = "synonyms" THEN <<>> ELSE synonyms_batch
  /\ relationships_batch' = IF kind = "relationships" THEN <<>> ELSE relationships_batch
  /\ mesh_xrefs_batch' = IF kind = "mesh_xrefs" THEN <<>> ELSE mesh_xrefs_batch

\* batch.clear() of the flushed entity
ClearBatch(kind) ==
  /\ terms_batch' = IF kind = "terms" THEN <<>> ELSE terms_batch
  /\ synonyms_batch' = IF kind = "synonyms" THEN <<>> ELSE synonyms_batch
  /\ relationships_batch' = IF kind = "relationships" THEN <<>> ELSE relationships_batch
  /\ mesh_xrefs_batch' = IF kind = "mesh_xrefs" THEN <<>> ELSE mesh_xrefs_batch

\* The threshold test of a flush site.  When the flush is due and the
\* loader's filter leaves rows, the bulk_insert_* call starts (cursor
\* opened); when it leaves none the call returns at once; when the flush is
\* not due main moves on.
FlushSite ==
  /\ pc \in FlushSites /\ op = NoOp
  /\ LET kind == SiteKind(pc)
         rows == Statements(kind, BatchOf(kind))
         calls == Append(flush.calls, [kind |-> kind, batch |-> BatchOf(kind)])
     IN IF SiteDue(pc) /\ rows # <<>>
        THEN /\ op' = [kind |-> kind, rows |-> rows, pos |-> 1]
             /\ flush' = [kind |-> kind, rows |-> rows, pre |-> committed,
                          state |-> "open", calls |-> calls]
             /\ UNCHANGED <<pc, terms_batch, synonyms_batch, relationships_batch,
                            mesh_xrefs_batch>>
        ELSE /\ pc' = SiteNext(pc)
             /\ IF SiteDue(pc)
                THEN ClearBatch(kind) /\ flush' = [flush EXCEPT !.calls = calls]
                ELSE UNCHANGED <<terms_batch, synonyms_batch, relationships_batch,
                                 mesh_xrefs_batch, flush>>
             /\ UNCHANGED op
  /\ UNCHANGED <<source, resolver, config, fetchVars, stats, stored_hashes, parent_urls_map,
                 mesh_xrefs_map, parent_refs_map, iri_to_id_map, todo, committed,
                 working, txn, connection, execution_id, exc, exit_code, snapshots>>

\* one statement of cursor.executemany, run inside the open transaction
BulkExecuteRow ==
  /\ op.kind # "none" /\ op.pos <= Len(op.rows)
  /\ working' = ExecuteRow(working, op.kind, op.rows[op.pos])
  /\ txn' = "intrans"
  /\ op' = [op EXCEPT !.pos = @ + 1]
  /\ UNCHANGED <<source, resolver, config, fetchVars, memVars, committed, flush, ctlVars>>

\* connection.commit() of a bulk_insert_* call, its return, and the caller's
\* bookkeeping (the counters of a term flush, batch.clear())
BulkCommit ==
  /\ op.kind # "none" /\ op.pos > Len(op.rows)
  /\ committed' = Commit(committed, working)
  /\ txn' = "idle"
  /\ flush' = [flush EXCEPT !.state = "committed"]
  /\ stats' = IF op.kind = "terms"
              THEN [stats EXCEPT !.terms_inserted = @ + Len(op.rows)]
              ELSE stats
  /\ ClearBatch(op.kind)
  /\ op' = NoOp
  /\ pc' = SiteNext(pc)
  /\ UNCHANGED <<source, resolver, config, fetchVars, stored_hashes, parent_urls_map,
                 mesh_xrefs_map, parent_refs_map, iri_to_id_map, todo, working,
                 connection, execution_id, exc, exit_code, snapshots>>

\* the dict parent_refs_map built from a url -> IRIs mapping (pipeline.py
\* 242-245)
RECURSIVE ParentRefs(_, _)
ParentRefs(urls_map, failed) ==
  IF urls_map = <<>> THEN <<>>
  ELSE LET e == Head(urls_map)
           parent_iris == IF e.v \in failed THEN <<>> ELSE ParentsAt(e.v)
       IN (IF parent_iris # <<>> THEN <<[k |-> e.k, v |-> parent_iris]>> ELSE <<>>)
          \o ParentRefs(Tail(urls_map), failed)

\* main going on before the parents of the last URL are there
ResolveParentsUnfinished ==
  /\ pc = "resolve_parents"
  /\ parent_refs_map' =
       IF parent_urls_map = <<>> THEN <<>>
       ELSE ParentRefs(SubSeq(parent_urls_map, 1, Len(parent_urls_map) - 1), {})
  /\ pc' = "build_iri_map"
  /\ UNCHANGED <<source, resolver, config, fetchVars, stats, stored_hashes, terms_batch,
                 synonyms_batch, relationships_batch, mesh_xrefs_batch,
                 parent_urls_map, mesh_xrefs_map, iri_to_id_map, todo, dbVars,
                 connection, execution_id, exc, exit_code, snapshots>>

\* pipeline.py 228-249: batch_fetch_parents answers every URL
ResolveParents ==
  /\ pc = "resolve_parents"
  /\ parent_refs_map' = ParentRefs(parent_urls_map, {})
  /\ pc' = "build_iri_map"
  /\ UNCHANGED <<source, resolver, config, fetchVars, stats, stored_hashes, terms_batch,
                 synonyms_batch, relationships_batch, mesh_xrefs_batch,
                 parent_urls_map, mesh_xrefs_map, iri_to_id_map, todo, dbVars,
                 connection, execution_id, exc, exit_code, snapshots>>

\* batch_fetch_parents with some URLs failing: each is mapped to []
ResolveParentsPartly ==
  /\ pc = "resolve_parents"
  /\ \E failed \in SUBSET Range(DictValues(parent_urls_map)) :
       /\ failed # {}
       /\ parent_refs_map' = ParentRefs(parent_urls_map, failed)
  /\ pc' = "build_iri_map"
  /\ UNCHANGED <<source, resolver, config, fetchVars, stats, stored_hashes, terms_batch,
                 synonyms_batch, relationships_batch, mesh_xrefs_batch,
                 parent_urls_map, mesh_xrefs_map, iri_to_id_map, todo, dbVars,
                 connection, execution_id, exc, exit_code, snapshots>>

\* pipeline.py 256-262: the IRI-to-id map is read, the relationship loop
\* starts
BuildIriMap ==
  /\ pc = "build_iri_map"
  /\ iri_to_id_map' = get_iri_to_id_map(working)
  /\ txn' = "intrans"
  /\ relationships_batch' = <<>>
  /\ todo' = DictKeys(parent_refs_map)
  /\ pc' = "rel_loop"
  /\ UNCHANGED <<source, resolver, config, fetchVars, stats, stored_hashes, terms_batch,
                 synonyms_batch, mesh_xrefs_batch, parent_urls_map, mesh_xrefs_map,
                 parent_refs_map, committed, working, op, flush, connection,
                 execution_id, exc, exit_code, snapshots>>

\* pipeline.py 262-268: one iteration over parent_refs_map
RelLoop ==
  /\ pc = "rel_loop"
  /\ IF todo = <<>>
     THEN /\ pc' = "rel_final"
          /\ UNCHANGED <<relationships_batch, todo>>
     ELSE /\ relationships_batch' = relationships_batch \o
               normalize_relationships(Head(todo),
                 DictGet(parent_refs_map, Head(todo), <<>>), iri_to_id_map)
          /\ todo' = Tail(todo)
          /\ pc' = "rel_flush"
  /\ UNCHANGED <<source, resolver, config, fetchVars, stats, stored_hashes, terms_batch,
                 synonyms_batch, mesh_xrefs_batch, parent_urls_map, mesh_xrefs_map,
                 parent_refs_map, iri_to_id_map, dbVars, connection, execution_id,
                 exc, exit_code, snapshots>>

\* pipeline.py 283-286: the cross-reference loop starts
MeshStart ==
  /\ pc = "mesh_start"
  /\ mesh_xrefs_batch' = <<>>
  /\ todo' = DictKeys(mesh_xrefs_map)
  /\ pc' = "mesh_loop"
  /\ UNCHANGED <<source, resolver, config, fetchVars, stats, stored_hashes, terms_batch,
                 synonyms_batch, relationships_batch, parent_urls_map,
                 mesh_xrefs_map, parent_refs_map, iri_to_id_map, dbVars,
                 connection, execution_id, exc, exit_code, snapshots>>

\* pipeline.py 286-291: one iteration over mesh_xrefs_map
MeshLoop ==
  /\ pc = "mesh_loop"
  /\ IF todo = <<>>
     THEN /\ pc' = "mesh_final"
          /\ UNCHANGED <<mesh_xrefs_batch, todo>>
     ELSE /\ mesh_xrefs_batch' = mesh_xrefs_batch \o
               normalize_mesh_xrefs(Head(todo),
                 DictGet(mesh_xrefs_map, Head(todo), <<>>))
          /\ todo' = Tail(todo)
          /\ pc' = "mesh_flush"
  /\ UNCHANGED <<source, resolver, config, fetchVars, stats, stored_hashes, terms_batch,
                 synonyms_batch, relationships_batch, parent_urls_map,
                 mesh_xrefs_map, parent_refs_map, iri_to_id_map, dbVars,
                 connection, execution_id, exc, exit_code, snapshots>>

\* update_execution_record: the UPDATE and its commit.  In a transaction
\* that a failed statement aborted the UPDATE is refused: the function
\* rolls back and raises.
UpdateRefused == txn = "aborted"

\* pipeline.py 305-311: the run record is written 'success'
UpdateSuccess ==
  /\ pc = "update_success"
  /\ working' = UpdateExecution(working, execution_id, "success", stats, "null")
  /\ committed' = Commit(committed, working')
  /\ txn' = "idle"
  /\ pc' = "log_complete"
  /\ UNCHANGED <<source, resolver, config, fetchVars, memVars, op, flush, connection,
                 execution_id, exc, exit_code, snapshots>>

\* pipeline.py 313-321: the summary is logged; the try block ends
LogComplete ==
  /\ pc = "log_complete"
  /\ exit_code' = 0
  /\ pc' = "finally"
  /\ UNCHANGED <<source, resolver, config, fetchVars, memVars, dbVars, connection,
                 execution_id, exc, snapshots>>

\* a handler that leaves the run record as it is
HandlerUpdateSkipped(st, message) == UNCHANGED <<committed, working>>

\* the handlers' update of the run record: refused in an aborted
\* transaction (rollback, the error leaves main), committed otherwise
HandlerUpdate(st, message) ==
  IF connection = "open" /\ execution_id # 0
  THEN IF UpdateRefused
       THEN /\ working' = Rollback(committed, working)
            /\ UNCHANGED committed
       ELSE /\ working' = UpdateExecution(working, execution_id, "failed", st, message)
            /\ committed' = Commit(committed, working')
  ELSE UNCHANGED <<committed, working>>

\* pipeline.py 323-332: except KeyboardInterrupt
ExceptInterrupt ==
  /\ pc = "except_interrupt"
  /\ HandlerUpdate(NoStats, "Interrupted by user")
  /\ txn' = IF connection = "open" /\ execution_id # 0 THEN "idle" ELSE txn
  /\ exit_code' = 1
  /\ pc' = "finally"
  /\ UNCHANGED <<source, resolver, config, fetchVars, memVars, op, flush, connection,
                 execution_id, exc, snapshots>>

\* pipeline.py 334-344: except Exception
ExceptException ==
  /\ pc = "except_exception"
  /\ HandlerUpdate(stats, exc)
  /\ txn' = IF connection = "open" /\ execution_id # 0 THEN "idle" ELSE txn
  /\ exit_code' = 1
  /\ pc' = "finally"
  /\ UNCHANGED <<source, resolver, config, fetchVars, memVars, op, flush, connection,
                 execution_id, exc, snapshots>>

\* a finally block that does not close the connection
FinallyLeavesOpen ==
  /\ pc = "finally"
  /\ working' = Rollback(committed, working)
  /\ txn' = "idle"
  /\ snapshots' = IF exit_code = 0 THEN Append(snapshots, DomainRows(committed))
                  ELSE snapshots
  /\ pc' = "exit"
  /\ UNCHANGED <<source, resolver, config, fetchVars, memVars, committed, op, flush,
                 connection, execution_id, exc, exit_code>>

\* pipeline.py 346-349: the connection is closed; what it had not committed
\* is lost
Finally ==
  /\ pc = "finally"
  /\ connection' = IF connection = "open" THEN "closed" ELSE connection
  /\ working' = Rollback(committed, working)
  /\ txn' = "idle"
  /\ snapshots' = IF exit_code = 0 THEN Append(snapshots, DomainRows(committed))
                  ELSE snapshots
  /\ pc' = "exit"
  /\ UNCHANGED <<source, resolver, config, fetchVars, memVars, committed, op, flush,
                 execution_id, exc, exit_code>>

Pipeline ==
  \/ Connect \/ CreateExecutionRecord \/ AssignExecutionId \/ LoadStoredHashes
  \/ ProcessRecord \/ EndOfTerms \/ FlushSite \/ BulkExecuteRow \/ BulkCommit
  \/ ResolveParents \/ BuildIriMap \/ RelLoop \/ MeshStart \/ MeshLoop
  \/ UpdateSuccess \/ LogComplete \/ Finally

(***************************************************************************)
(* Faults.  A fault strikes inside the try block of main; the handlers     *)
(* themselves run undisturbed, so a run sees at most one fault.            *)
(***************************************************************************)
TryPcs == {"connect", "create_execution_record", "assign_execution_id",
           "load_hashes", "for_next", "resolve_parents", "build_iri_map",
           "rel_loop", "mesh_start", "mesh_loop", "update_success",
           "log_complete"} \cup FlushSites

\* KeyboardInterrupt.  CPython raises it between two bytecodes: before or
\* after cursor.executemany (one call into C), not between its statements.
\* No handler of the loader catches it (they catch psycopg2.Error): the
\* cursor is closed, the transaction is left as it is, and main's handler
\* runs.
Interrupt ==
  /\ pc \in TryPcs
  /\ op.kind = "none" \/ op.pos = 1 \/ op.pos > Len(op.rows)
  /\ pc' = "except_interrupt"
  /\ op' = NoOp
  /\ flush' = IF op.kind # "none" THEN [flush EXCEPT !.state = "interrupted"]
              ELSE flush
  /\ UNCHANGED <<source, resolver, config, fetchVars, memVars, committed, working, txn,
                 connection, execution_id, exc, exit_code, snapshots>>

\* the places where main is inside a database call
DbSites == {"connect", "create_execution_record", "build_iri_map",
            "update_success"}

\* psycopg2.Error raised by the database call in progress.  The functions
\* that write roll back before they re-raise; the two that only read
\* (get_stored_term_hashes, get_iri_to_id_map) re-raise without a rollback
\* and leave the transaction aborted.
DbError ==
  /\ \/ pc \in DbSites
     \/ pc = "load_hashes" /\ config.execution_mode = "incremental"
     \/ op.kind # "none"
  /\ IF pc \in {"load_hashes", "build_iri_map"}
     THEN /\ txn' = "aborted"
          /\ UNCHANGED working
     ELSE /\ txn' = "idle"
          /\ working' = Rollback(committed, working)
  /\ flush' = IF op.kind # "none" THEN [flush EXCEPT !.state = "failed"] ELSE flush
  /\ op' = NoOp
  /\ exc' = "psycopg2.Error"
  /\ pc' = "except_exception"
  /\ UNCHANGED <<source, resolver, config, fetchVars, memVars, committed, connection,
                 execution_id, exit_code, snapshots>>

(***************************************************************************)
(* A run of the pipeline.                                                  *)
(***************************************************************************)
\* the term row the pipeline writes for a raw record
TermOf(raw) ==
  add_content_hash_to_term(normalize_term(extract_term_data(raw)).term,
                           extract_synonyms(raw), <<>>)

\* A store left by an earlier load: T1 as R1 gives it (with one of its
\* synonyms), T2 with another label and hash than R2 gives it.
PriorStore ==
  ExecuteMany(
    ExecuteMany(EmptyStore, "terms",
      <<TermOf(R1),
        [TermOf(R2) EXCEPT !.label = <<"b", "b">>,
                           !.content_hash = sha256_hexdigest(<<"b", "b">>)]>>),
    "synonyms", <<[term_id |-> <<"T", "1">>, synonym |-> <<"x">>]>>)

Stores == {EmptyStore, PriorStore}

Modes == {"test", "full", "incremental"}

\* validated configurations; record_limit only matters in test mode
RunConfigs ==
  {c \in [execution_mode : Modes, batch_size : 1..MaxBatchSize,
          record_limit : 0..MaxLimit, ols_request_delay : Delays] :
     c.execution_mode = "test" \/ c.record_limit = 0}

\* sources of a run: up to MaxRecords records in pages of MaxPageSize
RunSources ==
  {[pages |-> Paginate(recs, MaxPageSize),
    totalPages |-> Len(Paginate(recs, MaxPageSize))] :
     recs \in SeqsUpTo(Records, MaxRecords)}

StartOfMain ==
  /\ gen = [NewGen(LimitNone) EXCEPT !.pc = "none"]
  /\ page_calls = <<>> /\ yielded = <<>>
  /\ pc = "connect"
  /\ working = committed
  /\ IdleMain

Init ==
  /\ source \in RunSources
  /\ config \in RunConfigs
  /\ committed \in Stores
  /\ StartOfMain

Next ==
  \/ Fetcher \/ Pipeline \/ ResolveParentsPartly
  \/ Interrupt \/ DbError \/ ExceptInterrupt \/ ExceptException

Spec == Init /\ [][Next]_vars

(***************************************************************************)
(* Consecutive runs against an unchanged source, with no fault.            *)
(***************************************************************************)
MaxRuns == 2

\* main is started again on the store the last run left
Restart ==
  /\ pc = "exit" /\ exit_code = 0 /\ Len(snapshots) < MaxRuns
  /\ gen' = [NewGen(LimitNone) EXCEPT !.pc = "none"]
  /\ page_calls' = <<>> /\ yielded' = <<>>
  /\ pc' = "connect"
  /\ stats' = NoStats /\ stored_hashes' = <<>>
  /\ terms_batch' = <<>> /\ synonyms_batch' = <<>>
  /\ relationships_batch' = <<>> /\ mesh_xrefs_batch' = <<>>
  /\ parent_urls_map' = <<>> /\ mesh_xrefs_map' = <<>>
  /\ parent_refs_map' = <<>> /\ iri_to_id_map' = <<>> /\ todo' = <<>>
  /\ flush' = NoFlush
  /\ connection' = "none" /\ execution_id' = 0 /\ exc' = "" /\ exit_code' = -1
  /\ UNCHANGED <<source, resolver, config, committed, working, txn, op, snapshots>>

InitRerun ==
  /\ source \in RunSources
  /\ config \in {c \in RunConfigs : c.execution_mode = "full"}
  /\ committed \in Stores
  /\ StartOfMain

NextRerun ==
  \/ GenTop \/ HttpOk \/ GenPage \/ GenIter \/ GenResume \/ Pipeline \/ Restart

SpecRerun == InitRerun /\ [][NextRerun]_vars

(***************************************************************************)
(* The process from its first statement: parse_arguments, get_config with  *)
(* the overrides of the command line (pipeline.py 69-84), then the run     *)
(* with its faults.  Before get_config returns, config holds the values of *)
(* the environment and todo the parsed command line.                       *)
(***************************************************************************)
NoMode == ""
EnvModes == Modes \cup {"bogus"}
EnvConfigs ==
  [execution_mode : EnvModes, batch_size : 0..MaxBatchSize,
   record_limit : -1..MaxLimit, ols_request_delay : {0}]
CommandLines ==
  [mode : EnvModes \cup {NoMode},
   limit : {LimitNone} \cup {Limit(n) : n \in -1..MaxLimit}]

\* argparse: --mode has choices, --limit is any int; an error exits with 2
ParseArguments ==
  /\ pc = "parse_arguments"
  /\ IF todo[1].mode \in Modes \cup {NoMode}
     THEN pc' = "get_config" /\ UNCHANGED exit_code
     ELSE pc' = "exit" /\ exit_code' = 2
  /\ UNCHANGED <<source, resolver, config, fetchVars, memVars, dbVars, connection,
                 execution_id, exc, snapshots>>

\* Config._validate (config.py 49-75) on the values of the environment
ConfigValid(c) ==
  /\ c.execution_mode \in {"full", "incremental", "test"}
  /\ c.batch_size >= 1
  /\ c.ols_request_delay >= 0
  /\ c.record_limit >= 0

\* pipeline.py 72-84: get_config() validates, then the overrides are
\* assigned; an exception prints and exits with 1
GetConfig ==
  /\ pc = "get_config"
  /\ LET args == todo[1] IN
     IF ConfigValid(config)
     THEN /\ config' =
               [config EXCEPT
                  !.execution_mode = IF args.mode # NoMode THEN args.mode ELSE @,
                  !.record_limit = IF args.limit.some THEN args.limit.val ELSE @]
          /\ pc' = "connect"
          /\ UNCHANGED exit_code
     ELSE /\ pc' = "exit" /\ exit_code' = 1
          /\ UNCHANGED config
  /\ todo' = <<>>
  /\ UNCHANGED <<source, resolver, fetchVars, stats, stored_hashes, terms_batch,
                 synonyms_batch, relationships_batch, mesh_xrefs_batch,
                 parent_urls_map, mesh_xrefs_map, parent_refs_map, iri_to_id_map,
                 dbVars, connection, execution_id, exc, snapshots>>

InitStart ==
  /\ source \in {[pages |-> Paginate(recs, MaxPageSize),
                   totalPages |-> Len(Paginate(recs, MaxPageSize))] :
                    recs \in SeqsUpTo({R1, R2}, MaxRecords)}
  /\ config \in EnvConfigs
  /\ committed = EmptyStore /\ working = committed
  /\ gen = [NewGen(LimitNone) EXCEPT !.pc = "none"]
  /\ page_calls = <<>> /\ yielded = <<>>
  /\ stats = NoStats /\ stored_hashes = <<>>
  /\ terms_batch = <<>> /\ synonyms_batch = <<>>
  /\ relationships_batch = <<>> /\ mesh_xrefs_batch = <<>>
  /\ parent_urls_map = <<>> /\ mesh_xrefs_map = <<>>
  /\ parent_refs_map = <<>> /\ iri_to_id_map = <<>>
  /\ \E args \in CommandLines : todo = <<args>>
  /\ txn = "idle" /\ op = NoOp /\ flush = NoFlush
  /\ pc = "parse_arguments"
  /\ connection = "none" /\ execution_id = 0 /\ exc = "" /\ exit_code = -1
  /\ snapshots = <<>>
  /\ resolver = NoResolver

NextStart ==
  \/ ParseArguments \/ GetConfig
  \/ GenTop \/ HttpOk \/ GenPage \/ GenIter \/ GenResume \/ Pipeline
  \/ Interrupt \/ DbError \/ ExceptInterrupt \/ ExceptException

SpecStart == InitStart /\ [][NextStart]_vars

(***************************************************************************)
(* Full-mode runs, with no fault, over sources that hold records lacking   *)
(* a required field.                                                       *)
(***************************************************************************)
InitValidate ==
  /\ source \in {[pages |-> Paginate(recs, MaxPageSize),
                   totalPages |-> Len(Paginate(recs, MaxPageSize))] :
                    recs \in SeqsUpTo({R1, R2} \cup IncompleteRecords, MaxRecords)}
  /\ config \in {c \in RunConfigs :
                   c.execution_mode = "full" /\ c.ols_request_delay = 0}
  /\ committed = EmptyStore
  /\ StartOfMain

NextValidate ==
  \/ GenTop \/ HttpOk \/ GenPage \/ GenIter \/ GenResume \/ Pipeline
  \/ ExceptException

SpecValidate == InitValidate /\ [][NextValidate]_vars

(***************************************************************************)
(* Runs without faults in every mode, over an empty store and over a store *)
(* a previous run filled; record_limit is set in every mode.               *)
(***************************************************************************)
ModeConfigs ==
  [execution_mode : Modes, batch_size : 1..MaxBatchSize,
   record_limit : 0..MaxLimit, ols_request_delay : {0}]

InitModes ==
  /\ source \in RunSources
  /\ config \in ModeConfigs
  /\ committed \in Stores
  /\ StartOfMain

NextModes ==
  \/ GenTop \/ HttpOk \/ GenPage \/ GenIter \/ GenResume \/ Pipeline

SpecModes == InitModes /\ [][NextModes]_vars

(***************************************************************************)
(* Runs without faults over longer sources, in full and incremental mode,  *)
(* to count the flushes of the term buffer.                                *)
(***************************************************************************)
InitBatch ==
  /\ source \in {[pages |-> Paginate(recs, MaxPageSize),
                   totalPages |-> Len(Paginate(recs, MaxPageSize))] :
                    recs \in SeqsUpTo({R1, R2}, MaxBatchRecords)}
  /\ config \in {c \in ModeConfigs :
                   c.execution_mode # "test" /\ c.record_limit = 0}
  /\ committed \in Stores
  /\ StartOfMain

SpecBatch == InitBatch /\ [][NextModes]_vars

(***************************************************************************)
(* Runs without faults over sources in which a term comes with one parent  *)
(* link (R1) or with another (R8), its own content being the same.         *)
(***************************************************************************)
R8 == [R1 EXCEPT !.parents = [kind |-> "dict", hrefs |-> << <<"U", "2">> >>]]

InitParents ==
  /\ source \in {[pages |-> Paginate(recs, MaxPageSize),
                   totalPages |-> Len(Paginate(recs, MaxPageSize))] :
                    recs \in SeqsUpTo({R1, R2, R8}, MaxRecords)}
  /\ config \in {c \in ModeConfigs :
                   c.execution_mode # "test" /\ c.record_limit = 0}
  /\ committed \in Stores
  /\ StartOfMain

SpecParents == InitParents /\ [][NextModes]_vars

(***************************************************************************)
(* Runs over records whose links section carries two parent links.         *)
(***************************************************************************)
MaxLinkRecords == 3

\* T1 with a list of two parent links: the first leads to I2, the second
\* to I3
R9 == [R1 EXCEPT !.parents = [kind |-> "list",
                              hrefs |-> << <<"U", "2">>, <<"U", "3">> >>]]
\* a valid term T3 (IRI I3)
R10 == [R3 EXCEPT !.label = PyStr(<<"c">>)]

InitLinks ==
  /\ source \in {[pages |-> Paginate(recs, MaxPageSize),
                   totalPages |-> Len(Paginate(recs, MaxPageSize))] :
                    recs \in SeqsUpTo({R9, R2, R10}, MaxLinkRecords)}
  /\ config \in {c \in ModeConfigs :
                   c.execution_mode # "test" /\ c.record_limit = 0}
  /\ committed \in Stores
  /\ StartOfMain

SpecLinks == InitLinks /\ [][NextModes]_vars

(***************************************************************************)
(* Runs over records that bring several rows each: T1 with two synonyms    *)
(* and two parents, T3 with two MeSH cross-references.                     *)
(***************************************************************************)
R11 == [R10 EXCEPT !.obo_xref = << [mesh_db |-> TRUE, id |-> <<"D", "3">>] >>,
                   !.db_xref = << <<"M", "S", "H", ":", "D", "1">> >>]

InitRows ==
  /\ source \in {[pages |-> Paginate(recs, MaxPageSize),
                   totalPages |-> Len(Paginate(recs, MaxPageSize))] :
                    recs \in SeqsUpTo({R1, R2, R11}, MaxLinkRecords)}
  /\ config \in {c \in ModeConfigs :
                   c.execution_mode # "test" /\ c.record_limit = 0}
  /\ committed \in Stores
  /\ StartOfMain

SpecRows == InitRows /\ [][NextModes]_vars

(***************************************************************************)
(* Runs whose pages may fail (HTTP errors, network errors, bad JSON), over *)
(* sources of one record a page; the database does not fail.               *)
(***************************************************************************)
InitTruncated ==
  /\ source \in {[pages |-> Paginate(recs, 1),
                   totalPages |-> Len(Paginate(recs, 1))] :
                    recs \in SeqsUpTo({R1, R2}, MaxRecords)}
  /\ config \in {c \in RunConfigs : c.ols_request_delay = 0}
  /\ committed \in Stores
  /\ StartOfMain

NextTruncated == Fetcher \/ Pipeline

SpecTruncated == InitTruncated /\ [][NextTruncated]_vars

(***************************************************************************)
(* The relationship phase alone (pipeline.py 256-278), given any resolved  *)
(* parents: children that are stored and one that is not, parents written  *)
(* as a plain IRI, as a URL with an iri parameter and as a terms path.     *)
(***************************************************************************)
HrefParam == <<"u">> \o IriParam \o <<"I", "1", "&", "x">>
HrefPath == <<"u">> \o TermsPath \o <<"I", "2", "%", "2", "F">>
RelHrefs == {<<"I", "2">>, <<"I", "3">>, HrefParam, HrefPath}
RelChildren == {<<"I", "1">>, <<"I", "9">>}
RelParentLists == SeqsUpTo(RelHrefs, MaxRelParents) \ {<<>>}
RelInputs ==
  {d \in UNION {[1..n -> [k : RelChildren, v : RelParentLists]] : n \in 1..2} :
     \A i, j \in 1..Len(d) : i # j => d[i].k # d[j].k}

InitRel ==
  /\ source = [pages |-> <<>>, totalPages |-> 0]
  /\ config \in {c \in ModeConfigs :
                   c.execution_mode = "full" /\ c.record_limit = 0}
  /\ gen = [NewGen(LimitNone) EXCEPT !.pc = "done"]
  /\ page_calls = <<>> /\ yielded = <<>>
  /\ committed \in Stores /\ working = committed
  /\ stats = NoStats /\ stored_hashes = <<>>
  /\ terms_batch = <<>> /\ synonyms_batch = <<>>
  /\ relationships_batch = <<>> /\ mesh_xrefs_batch = <<>>
  /\ parent_urls_map = <<>> /\ mesh_xrefs_map = <<>>
  /\ parent_refs_map \in RelInputs
  /\ iri_to_id_map = <<>> /\ todo = <<>>
  /\ txn = "idle" /\ op = NoOp /\ flush = NoFlush
  /\ pc = "build_iri_map"
  /\ connection = "open" /\ execution_id = 1 /\ exc = "" /\ exit_code = -1
  /\ snapshots = <<>>
  /\ resolver = NoResolver

NextRel ==
  \/ BuildIriMap \/ RelLoop
  \/ (pc \in {"rel_flush", "rel_final"} /\ FlushSite)
  \/ (op.kind = "relationships" /\ BulkExecuteRow)
  \/ (op.kind = "relationships" /\ BulkCommit)

SpecRel == InitRel /\ [][NextRel]_vars

(***************************************************************************)
(* The content hash alone: compute_term_hash applied to normalised terms   *)
(* (label trimmed and not empty, description None or trimmed and not       *)
(* empty), synonym lists and parent lists; snapshots keeps the calls made. *)
(***************************************************************************)
HashLabels == {<<"a">>, <<"a", "|", "b">>}
HashDescriptions == {NoneStr, Some(<<"b">>), Some(<<"b", "|">>)}
HashSynonyms == {<<"a">>, <<"a", ",", "a">>}
HashParents == {<<"x">>, <<"y">>}
HashTerms ==
  {[term_id |-> <<"T", "1">>, iri |-> <<"I", "1">>, label |-> l,
    description |-> d, content_hash |-> NoneStr] :
     l \in HashLabels, d \in HashDescriptions}

InitHash ==
  /\ source = [pages |-> <<>>, totalPages |-> 0]
  /\ config = [execution_mode |-> "full", batch_size |-> 1, record_limit |-> 0,
               ols_request_delay |-> 0]
  /\ gen = [NewGen(LimitNone) EXCEPT !.pc = "none"]
  /\ page_calls = <<>> /\ yielded = <<>>
  /\ committed = EmptyStore /\ working = EmptyStore
  /\ pc = "hash"
  /\ IdleMain

HashTerm ==
  /\ pc = "hash" /\ Len(snapshots) < 2
  /\ \E term_dict \in HashTerms,
        synonyms_list \in SeqsUpTo(HashSynonyms, MaxHashList),
        parent_iris \in SeqsUpTo(HashParents, MaxHashList) :
       snapshots' = Append(snapshots,
                           [term_dict |-> term_dict,
                            synonyms_list |-> synonyms_list,
                            parent_iris |-> parent_iris,
                            hash |-> compute_term_hash(term_dict, synonyms_list,
                                                       parent_iris)])
  /\ UNCHANGED <<source, config, resolver, fetchVars, memVars, dbVars, pc,
                 connection, execution_id, exc, exit_code>>

SpecHash == InitHash /\ [][HashTerm]_vars

(***************************************************************************)
(* Properties of the load of terms and synonyms.                           *)
(***************************************************************************)
\* term_ids of the terms waiting in terms_batch
UnflushedTermIds == {terms_batch[i].term_id : i \in 1..Len(terms_batch)}

\* a bulk_insert_synonyms call of the LOAD_TERMS phase is in progress
SynonymFlushInProgress ==
  op.kind = "synonyms" /\ pc \in {"flush_synonyms", "final_synonyms"}

\* C1: during LOAD_TERMS, whenever a synonym batch is flushed, the owning
\* term of every synonym row of the flush is already committed: no row is
\* flushed whose owner is only in the unflushed terms_batch, where the
\* loader's lookup finds no owner.
C1_SynonymOwnersCommitted ==
  SynonymFlushInProgress =>
    \A i \in 1..Len(op.rows) :
      ~ /\ op.rows[i].term_id \in UnflushedTermIds
        /\ TermIdsOf(committed, op.rows[i].term_id) = {}

\* the store a flush leaves when all its rows are written
FlushPost == ExecuteMany(flush.pre, flush.kind, flush.rows)

\* C2: every flush is atomic: in every reachable state either all rows of
\* the flush are committed or none of them is, and a write failure inside
\* the flush leaves none of them committed.
C2_FlushAtomic ==
  flush.kind # "none" =>
    /\ DomainRows(committed) \in {DomainRows(flush.pre), DomainRows(FlushPost)}
    /\ flush.state \in {"open", "failed"} =>
         DomainRows(committed) = DomainRows(flush.pre)
    /\ flush.state = "committed" => DomainRows(committed) = DomainRows(FlushPost)

\* a flush of two rows half-way: the transaction holds the first row, the
\* store holds none
C2_Witness ==
  /\ op.kind # "none" /\ Len(op.rows) = 2 /\ op.pos = 2
  /\ DomainRows(working) # DomainRows(committed)
  /\ DomainRows(working) # DomainRows(FlushPost)

(***************************************************************************)
(* Properties of the run record and of the terminal paths.                 *)
(***************************************************************************)
\* the run record of the run, as other sessions see it
RunRecord == committed.pipeline_executions[execution_id]

\* C3: when the process is interrupted while a flush is in flight, the run
\* record is set to 'failed' with the interrupted reason, the connection is
\* closed, and no row of the in-flight batch becomes committed.
C3_InterruptedFlushStaysUncommitted ==
  (flush.state = "interrupted" /\ pc = "exit") =>
    /\ connection = "closed"
    /\ RunRecord.status = "failed"
    /\ RunRecord.error_message = "Interrupted by user"
    /\ DomainRows(committed) = DomainRows(flush.pre)

\* C4: every run that created its run record ends with the record in a
\* terminal status, never 'running', on every terminating path.
C4_RecordTerminalAtExit ==
  pc = "exit" =>
    \A i \in 1..Len(committed.pipeline_executions) :
      committed.pipeline_executions[i].status \in {"success", "failed"}

\* C5: the run record is created 'running' and, once its status is terminal,
\* never changes again.
C5_RecordMutatedOnce ==
  [][\A i \in 1..Len(committed'.pipeline_executions) :
       IF i > Len(committed.pipeline_executions)
       THEN committed'.pipeline_executions[i].status = "running"
       ELSE committed.pipeline_executions[i].status \in {"success", "failed"} =>
              committed'.pipeline_executions[i] = committed.pipeline_executions[i]]_vars

\* C6: when a flush fails with a database error the run aborts: no further
\* flush and no later phase runs, the run record is finalized 'failed' with
\* the error text, and what was committed before the failure is unchanged.
C6_FailedFlushAbortsRun ==
  flush.state = "failed" =>
    /\ pc \in {"except_exception", "finally", "exit"}
    /\ op = NoOp
    /\ DomainRows(committed) = DomainRows(flush.pre)
    /\ pc \in {"finally", "exit"} =>
         /\ RunRecord.status = "failed"
         /\ RunRecord.error_message = exc
         /\ exc = "psycopg2.Error"
         /\ exit_code = 1

\* a synonym flush failed after a term flush of the same run was committed,
\* and the run has ended
C6_Witness ==
  /\ flush.state = "failed" /\ flush.kind = "synonyms" /\ pc = "exit"
  /\ stats.terms_inserted > 0

(***************************************************************************)
(* Re-running the pipeline, re-applying a batch.                           *)
(***************************************************************************)
\* C7: the domain rows after two consecutive successful full-mode runs
\* against the unchanged source are the rows after the first run alone.
C7_RerunIdempotent ==
  Len(snapshots) = 2 => snapshots[2] = snapshots[1]

\* Batches a caller can hand to a bulk_insert_* function over a store.
TermRows ==
  {TermOf(R1), TermOf(R2),
   [TermOf(R2) EXCEPT !.label = <<"c">>, !.content_hash = sha256_hexdigest(<<"c">>)]}

SynonymRows ==
  {[term_id |-> <<"T", "1">>, synonym |-> <<"x">>],
   [term_id |-> <<"T", "1">>, synonym |-> <<"y", " ">>],
   [term_id |-> <<"T", "2">>, synonym |-> <<"x">>],
   [term_id |-> <<"T", "9">>, synonym |-> <<"x">>]}

\* (child_id, parent_id) of rows the store holds
RelationshipRows(db) ==
  {<<a.id, b.id>> : a \in db.efo_terms, b \in db.efo_terms} \ 
  {<<a.id, a.id>> : a \in db.efo_terms}

MeshRows ==
  {[term_id |-> <<"T", "1">>, mesh_id |-> <<"D", "1">>, database |-> MSH],
   [term_id |-> <<"T", "2">>, mesh_id |-> <<"D", "1">>, database |-> MSH],
   [term_id |-> <<"T", "9">>, mesh_id |-> <<"D", "2">>, database |-> MSH]}

BatchesOf(kind, db) ==
  CASE kind = "terms" -> SeqsUpTo(TermRows, MaxBatchSize)
    [] kind = "synonyms" -> SeqsUpTo(SynonymRows, MaxBatchSize)
    [] kind = "relationships" -> SeqsUpTo(RelationshipRows(db), MaxBatchSize)
    [] kind = "mesh_xrefs" -> SeqsUpTo(MeshRows, MaxBatchSize)

\* the call site after the loop of an entity: `if batch: bulk_insert_*(batch)`
FinalSite(kind) ==
  CASE kind = "terms" -> "final_terms"
    [] kind = "synonyms" -> "final_synonyms"
    [] kind = "relationships" -> "rel_final"
    [] kind = "mesh_xrefs" -> "mesh_final"

\* A caller about to hand a batch to the bulk_insert_* function of its kind;
\* todo keeps the batch for the second application.
InitLoader ==
  /\ source = [pages |-> <<>>, totalPages |-> 0]
  /\ config = [execution_mode |-> "full", batch_size |-> 1, record_limit |-> 0,
               ols_request_delay |-> 0]
  /\ gen = [NewGen(LimitNone) EXCEPT !.pc = "none"]
  /\ page_calls = <<>> /\ yielded = <<>>
  /\ committed \in Stores /\ working = committed
  /\ stats = NoStats /\ stored_hashes = <<>>
  /\ parent_urls_map = <<>> /\ mesh_xrefs_map = <<>>
  /\ parent_refs_map = <<>> /\ iri_to_id_map = <<>>
  /\ txn = "idle" /\ op = NoOp /\ flush = NoFlush
  /\ connection = "open" /\ execution_id = 0 /\ exc = "" /\ exit_code = -1
  /\ snapshots = <<>>
  /\ resolver = NoResolver
  /\ \E kind \in {"terms", "synonyms", "relationships", "mesh_xrefs"} :
       \E batch \in BatchesOf(kind, committed) :
         /\ pc = FinalSite(kind)
         /\ todo = <<kind, batch>>
         /\ terms_batch = IF kind = "terms" THEN batch ELSE <<>>
         /\ synonyms_batch = IF kind = "synonyms" THEN batch ELSE <<>>
         /\ relationships_batch = IF kind = "relationships" THEN batch ELSE <<>>
         /\ mesh_xrefs_batch = IF kind = "mesh_xrefs" THEN batch ELSE <<>>

\* the call has returned: the rows of the store are noted, and the same
\* batch is handed to the function again
Reapply ==
  /\ op = NoOp /\ Len(todo) = 2 /\ Len(snapshots) < MaxRuns
  /\ pc = SiteNext(FinalSite(todo[1]))
  /\ snapshots' = Append(snapshots, DomainRows(committed))
  /\ pc' = IF Len(snapshots') < MaxRuns THEN FinalSite(todo[1]) ELSE "exit"
  /\ terms_batch' = IF todo[1] = "terms" THEN todo[2] ELSE <<>>
  /\ synonyms_batch' = IF todo[1] = "synonyms" THEN todo[2] ELSE <<>>
  /\ relationships_batch' = IF todo[1] = "relationships" THEN todo[2] ELSE <<>>
  /\ mesh_xrefs_batch' = IF todo[1] = "mesh_xrefs" THEN todo[2] ELSE <<>>
  /\ UNCHANGED <<source, resolver, config, fetchVars, stats, stored_hashes, parent_urls_map,
                 mesh_xrefs_map, parent_refs_map, iri_to_id_map, todo, dbVars,
                 connection, execution_id, exc, exit_code>>

NextLoader == FlushSite \/ BulkExecuteRow \/ BulkCommit \/ Reapply

SpecLoader == InitLoader /\ [][NextLoader]_vars

\* C8: applying the same batch of terms twice leaves exactly one term row
\* per term_id, with the fields it had after the first application; applying
\* a synonym, relationship or cross-reference batch again adds no row.
C8_ReapplyAddsNothing ==
  Len(snapshots) = 2 =>
    /\ snapshots[2] = snapshots[1]
    /\ \A a \in snapshots[2].efo_terms, b \in snapshots[2].efo_terms :
         a.term_id = b.term_id => a = b
    /\ todo[1] = "terms" =>
         \A i \in 1..Len(todo[2]) :
           \E r \in snapshots[2].efo_terms : r.term_id = todo[2][i].term_id

\* a batch of two term rows was applied twice to a store
C8_Witness ==
  /\ Len(snapshots) = 2 /\ todo[1] = "terms" /\ Len(todo[2]) = 2
  /\ todo[2][1].term_id = todo[2][2].term_id
  /\ todo[2][1] # todo[2][2]

(***************************************************************************)
(* Properties of fetch_all_terms.                                          *)
(***************************************************************************)
\* the records of a list of pages, in order
RECURSIVE Flatten(_)
Flatten(pages) ==
  IF pages = <<>> THEN <<>> ELSE Head(pages) \o Flatten(Tail(pages))

\* the pages before the first empty one
RECURSIVE BeforeEmpty(_)
BeforeEmpty(pages) ==
  IF pages = <<>> \/ Head(pages) = <<>> THEN <<>>
  ELSE <<Head(pages)>> \o BeforeEmpty(Tail(pages))

\* fetch_all_terms was called without a limit (None, or 0)
NoLimit == ~gen.limit.some \/ gen.limit.val = 0

\* the source reports totalPages = P for its P pages
TruthfulSource == source.totalPages = Len(source.pages)

\* the generator has ended and no page request was given up
EndedUndisturbed == gen.pc = "done" /\ gen.stop # "failed"

\* page numbers 0 .. n-1
PagesUpTo(n) == [i \in 1..n |-> i - 1]

\* C9 as stated, for every source of P pages: without a limit the generator
\* yields exactly the records of pages 0..P-1 in order, requests each of
\* those pages once and never page P, and ends.
C9_AllPagesOnce ==
  (NoLimit /\ TruthfulSource) =>
    /\ \A i \in 1..Len(page_calls) : page_calls[i] = i - 1 /\ i - 1 < Len(source.pages)
    /\ EndedUndisturbed =>
         /\ yielded = Flatten(source.pages)
         /\ page_calls = PagesUpTo(Len(source.pages))

\* C9 for a source of P >= 1 pages none of which, before the last, is empty.
C9_AllPagesOnce_NoEmptyPage ==
  (/\ NoLimit /\ TruthfulSource /\ Len(source.pages) >= 1
   /\ \A k \in 1..(Len(source.pages) - 1) : source.pages[k] # <<>>) =>
    /\ \A i \in 1..Len(page_calls) : page_calls[i] = i - 1 /\ i - 1 < Len(source.pages)
    /\ EndedUndisturbed =>
         /\ yielded = Flatten(source.pages)
         /\ page_calls = PagesUpTo(Len(source.pages))

\* two pages, of 2 and 1 records, were read to the end
C9_Witness ==
  /\ NoLimit /\ TruthfulSource /\ EndedUndisturbed
  /\ Len(source.pages) = 2 /\ Len(source.pages[1]) = 2 /\ Len(source.pages[2]) = 1
  /\ Len(yielded) = 3

\* fetch_all_terms was called with a positive limit
PositiveLimit == gen.limit.some /\ gen.limit.val > 0

\* C10 as stated, for every source holding at least L records: with a
\* positive limit L the generator yields exactly L records and issues no
\* page request after the L-th record was yielded.
C10_ExactlyLimit ==
  PositiveLimit =>
    /\ Len(yielded) <= gen.limit.val
    /\ Len(yielded) >= gen.limit.val => gen.pc # "request"
    /\ (EndedUndisturbed /\ Len(Flatten(source.pages)) >= gen.limit.val) =>
         yielded = SubSeq(Flatten(source.pages), 1, gen.limit.val)

\* C10 for a source holding at least L records before any empty page.
C10_ExactlyLimit_NoEmptyPage ==
  PositiveLimit =>
    /\ Len(yielded) <= gen.limit.val
    /\ Len(yielded) >= gen.limit.val => gen.pc # "request"
    /\ (EndedUndisturbed
        /\ Len(Flatten(BeforeEmpty(source.pages))) >= gen.limit.val) =>
         yielded = SubSeq(Flatten(source.pages), 1, gen.limit.val)

\* the limit was reached exactly at the end of the first of two pages, and
\* the second page was never requested
C10_Witness ==
  /\ PositiveLimit /\ EndedUndisturbed
  /\ Len(source.pages) = 2 /\ source.pages[2] # <<>>
  /\ Len(source.pages[1]) = gen.limit.val
  /\ Len(yielded) = gen.limit.val /\ page_calls = <<0>>

(***************************************************************************)
(* Properties of fetch_terms_page.                                         *)
(***************************************************************************)
\* Sources for the study of one page fetch: two pages reported truthfully,
\* and one page with no page count.
PageSources ==
  {[pages |-> << <<R1>>, <<R2>> >>, totalPages |-> 2],
   [pages |-> << <<R1, R2>> >>, totalPages |-> 0]}

\* fetch_all_terms called without a limit, the history of each page fetch kept
InitPage ==
  /\ source \in PageSources
  /\ \E d \in Delays :
       config = [execution_mode |-> "full", batch_size |-> 1, record_limit |-> 0,
                 ols_request_delay |-> d]
  /\ gen = [NewGen(LimitNone) EXCEPT !.trace = TRUE]
  /\ page_calls = <<>> /\ yielded = <<>>
  /\ pc = "for_next"
  /\ committed = EmptyStore /\ working = EmptyStore
  /\ IdleMain

SpecPage == InitPage /\ [][NextFetch]_vars

\* the answers the requests of the page fetch got, in order
RECURSIVE Answers(_)
Answers(log) ==
  IF log = <<>> THEN <<>>
  ELSE (IF Head(log).e = "get" THEN <<Head(log).answer>> ELSE <<>>)
       \o Answers(Tail(log))

\* the sleeps of the page fetch with a given reason, in order
RECURSIVE Sleeps(_, _)
Sleeps(log, why) ==
  IF log = <<>> THEN <<>>
  ELSE (IF Head(log).e = "sleep" /\ Head(log).why = why THEN <<Head(log).secs>>
        ELSE <<>>) \o Sleeps(Tail(log), why)

\* fetch_terms_page has returned to fetch_all_terms
Returned == gen.pc = "returned"

\* the page fetch_terms_page was called for
PageK == gen.page_number

\* fetch_terms_page has returned None (fetch_all_terms may have ended on it)
ReturnedNone ==
  \/ Returned /\ gen.result = "None"
  \/ gen.pc = "done" /\ gen.stop = "failed"

\* the last element of a non-empty sequence
Last(l) == l[Len(l)]

\* C11: a 4xx (non-429) answer for page k is fatal for the page: no request
\* follows it (one request in all when it answers the first), None is
\* returned, and fetch_all_terms then ends having yielded exactly the records
\* of pages 0..k-1 and requested no later page.
C11_ClientErrorIsFatal ==
  LET answers == Answers(gen.log) IN
  /\ \A i \in 1..Len(answers) : answers[i] = "4xx" =>
       /\ i = Len(answers)
       /\ ReturnedNone
  /\ (gen.pc = "done" /\ answers # <<>> /\ Last(answers) = "4xx") =>
       /\ gen.stop = "failed"
       /\ yielded = Flatten(SubSeq(source.pages, 1, PageK))
       /\ page_calls = PagesUpTo(PageK + 1)

\* page 1 answered 4xx at its first request after page 0 was yielded, and
\* the generator has ended
C11_Witness ==
  /\ gen.pc = "done" /\ PageK = 1 /\ Answers(gen.log) = <<"4xx">>
  /\ yielded = <<R1>>

\* answers of transient failures
Transient == {"5xx", "neterr"}

\* C12: fetch_terms_page makes at most 3 requests for a page whatever the
\* answers, and when 3 attempts fail transiently it returns None.
C12_AtMostThreeRequests ==
  LET answers == Answers(gen.log) IN
  /\ Len(answers) <= 3
  /\ (Len(answers) = 3 /\ \A i \in 1..3 : answers[i] \in Transient) => ReturnedNone

\* three transient failures in a row, None returned
C12_Witness ==
  /\ Returned /\ gen.result = "None"
  /\ Answers(gen.log) = <<"5xx", "neterr", "5xx">>

\* C13: after fewer than 3 transient failures a successful answer ends the
\* page fetch: its payload is returned and no request follows it.
C13_FirstSuccessReturned ==
  LET answers == Answers(gen.log) IN
  \A i \in 1..Len(answers) : answers[i] = "200" =>
    /\ i = Len(answers)
    /\ Returned /\ gen.result = "payload"

\* fail, fail, success: the third answer's payload is returned
C13_Witness ==
  /\ Returned /\ gen.result = "payload"
  /\ Answers(gen.log) = <<"5xx", "5xx", "200">>

RECURSIVE Pow2(_)
Pow2(n) == IF n = 0 THEN 1 ELSE 2 * Pow2(n - 1)

\* how many of the first n answers are not 429
RECURSIVE NonRateLimited(_, _)
NonRateLimited(answers, n) ==
  IF n = 0 THEN 0
  ELSE NonRateLimited(answers, n - 1) + (IF answers[n] = "429" THEN 0 ELSE 1)

\* C14: a 429 is retried after a wait of at least twice the base delay (1
\* unit), and it does not consume the backoff multiplier: the wait after a
\* transient failure is the one its place among the non-429 failures gives,
\* whether or not 429 answers preceded it.
C14_RateLimitKeepsBackoff ==
  LET answers == Answers(gen.log)
      waits == Sleeps(gen.log, "retry")
  IN \A i \in 1..Len(waits) :
       /\ answers[i] = "429" => waits[i] >= 2
       /\ answers[i] \in Transient =>
            waits[i] = Pow2(NonRateLimited(answers, i - 1))

\* C15: the wait after the n-th consecutive transient failure is 2^(n-1)
\* units: 1 before the second attempt, 2 before the third.
C15_BackoffDoubles ==
  LET answers == Answers(gen.log)
      waits == Sleeps(gen.log, "retry")
  IN \A n \in 1..Len(waits) :
       (\A i \in 1..n : answers[i] \in Transient) => waits[n] = Pow2(n - 1)

\* two transient failures waited 1 and 2 units, the third attempt is next
C15_Witness ==
  /\ gen.pc = "request" /\ gen.attempt = 2
  /\ Answers(gen.log) = <<"neterr", "5xx">>
  /\ Sleeps(gen.log, "retry") = <<1, 2>>

\* C16: the courtesy delay is applied once per page fetch that returns a
\* payload and never on an attempt that fails: a courtesy sleep is the last
\* thing a page fetch does before it returns its payload.
C16_CourtesyOnlyOnSuccess ==
  /\ \A i \in 1..Len(gen.log) :
       (gen.log[i].e = "sleep" /\ gen.log[i].why = "courtesy") =>
         /\ i = Len(gen.log)
         /\ Returned /\ gen.result = "payload"
  /\ (Returned /\ gen.result = "payload" /\ config.ols_request_delay > 0) =>
       Sleeps(gen.log, "courtesy") = <<config.ols_request_delay>>
  /\ ReturnedNone => Sleeps(gen.log, "courtesy") = <<>>

\* why fetch_all_terms has ended, told from the source and the limit
EndReasonHolds ==
  /\ gen.stop \in {"limit", "last", "empty", "failed"}
  /\ gen.stop = "limit" => PositiveLimit /\ Len(yielded) = gen.limit.val
  /\ gen.stop = "last" =>
       /\ source.totalPages > 0
       /\ gen.page_number >= source.totalPages - 1
  /\ gen.stop = "empty" => PageResponse(source, gen.page_number).terms = <<>>

Owed(p) ==
  IF resolver.answers[p] = "200" THEN ParentsAt(resolver.parent_urls[p]) ELSE <<>>

\* C18: batch_fetch_parents_sync returns a complete mapping: every URL whose
\* retry loop is over is a key of results, whatever its requests met, a
\* failed URL with the empty list.
C18_SyncMapComplete ==
  resolver.mode = "sync" =>
    \A p \in 1..Len(resolver.parent_urls) :
      p <= resolver.idx => resolver.parent_urls[p] \in DOMAIN resolver.results

\* C19: in batch_fetch_parents_async each URL's result depends on its own
\* request alone: a request of the group in progress is outstanding or has
\* its own result whatever its siblings met, every URL of a finished group is
\* a key of results with its parents or, if its request failed, the empty
\* list, and the map returned has every input URL as a key.
C19_FailuresIsolated ==
  resolver.mode = "async" =>
    LET urls == resolver.parent_urls IN
    /\ \A p \in DOMAIN resolver.batch_results :
         resolver.batch_results[p] = Owed(p)
    /\ resolver.pc = "gather" =>
         \A p \in 1..Len(urls) :
           (p > resolver.i /\ p <= resolver.i + 50) =>
             p \in resolver.outstanding \cup DOMAIN resolver.batch_results
    /\ \A p \in 1..Len(urls) :
         p <= resolver.i =>
           /\ urls[p] \in DOMAIN resolver.results
           /\ resolver.results[urls[p]] = Owed(p)
    /\ resolver.pc = "return" => DOMAIN resolver.results = Range(urls)

\* 51 URLs resolved: the first failed with an exception, the 51st with a
\* status, the second has its parents
C19_Witness ==
  /\ resolver.mode = "async" /\ resolver.pc = "return"
  /\ Len(resolver.parent_urls) = 51
  /\ resolver.answers[1] = "exception" /\ resolver.answers[51] = "non200"
  /\ resolver.results[UrlOf(1)] = <<>>
  /\ resolver.results[UrlOf(2)] = << <<"I", "2">> >>
  /\ resolver.results[UrlOf(51)] = <<>>

\* C20: in batch_fetch_parents_async at most 50 requests are outstanding,
\* those outstanding belong to one group of 50 consecutive URLs, every
\* request of the groups before it has completed and been stored, and a pause
\* is taken only after a group that another group follows.
C20_GroupsOfFifty ==
  resolver.mode = "async" =>
    LET urls == resolver.parent_urls
        groups == (Len(urls) + 49) \div 50
    IN
    /\ Cardinality(resolver.outstanding) <= 50
    /\ resolver.i % 50 = 0
    /\ \A p \in resolver.outstanding :
         /\ p > resolver.i /\ p <= resolver.i + 50
         /\ \A q \in 1..resolver.i :
              q \in DOMAIN resolver.answers /\ urls[q] \in DOMAIN resolver.results
    /\ \A k \in 1..Len(resolver.pauses) :
         /\ resolver.pauses[k] = 50 * (k - 1)
         /\ resolver.pauses[k] + 50 < Len(urls)
    /\ resolver.pc = "return" =>
         Len(resolver.pauses) =
           IF config.ols_request_delay > 0 /\ groups > 0 THEN groups - 1 ELSE 0

\* 51 URLs resolved with a delay: two groups, one pause, after the first
C20_Witness ==
  /\ resolver.mode = "async" /\ resolver.pc = "return"
  /\ Len(resolver.parent_urls) = 51 /\ config.ols_request_delay > 0
  /\ resolver.pauses = <<0>>

\* the sequential resolver has left the retry loop of the URL whose
\* answers resolver.log holds
SyncUrlOver ==
  resolver.mode = "sync" /\ resolver.pc # "attempt" /\ resolver.log # <<>>

\* C21: for each URL the sequential fallback makes at most 3 requests; a 200
\* is the last request for its URL, which is mapped to the parents served; a
\* 404 is the last request for its URL, which is mapped to the empty list.
C21_SyncRetryPolicy ==
  resolver.mode = "sync" =>
    LET log == resolver.log IN
    /\ Len(log) <= 3
    /\ \A i \in 1..Len(log) :
         log[i] \in {"200", "404"} => i = Len(log) /\ SyncUrlOver
    /\ (SyncUrlOver /\ Last(log) \in {"200", "404"}) =>
         LET url == resolver.parent_urls[resolver.idx] IN
         /\ url \in DOMAIN resolver.results
         /\ resolver.results[url] =
              IF Last(log) = "200" THEN ParentsAt(url) ELSE <<>>

\* the second URL answered 404 at its first request
C21_Witness ==
  /\ SyncUrlOver /\ resolver.idx = 2 /\ resolver.log = <<"404">>
  /\ resolver.results[UrlOf(2)] = <<>>

(***************************************************************************)
(* Properties of validation.                                               *)
(***************************************************************************)
\* a raw field is missing: absent key, null, empty or white space only
Missing(field) == field.t \in {"absent", "none"} \/ Strip(field.v) = <<>>

\* a raw record in which term_id, iri or label is missing
MissingRequired(raw) ==
  Missing(raw.obo_id) \/ Missing(raw.iri) \/ Missing(raw.label)

\* main holds a record it has just been handed by the generator
AtRecord == pc = "for_next" /\ gen.pc = "yielded"

\* C22: for every raw record in which term_id, iri or label is missing
\* normalize_term returns None without raising, and main counts one skip
\* for it, adds nothing to its buffers and goes on with the next record.
C22_MissingFieldSkipped ==
  [][(AtRecord /\ MissingRequired(gen.terms[gen.idx])) =>
       /\ normalize_term(extract_term_data(gen.terms[gen.idx])).tag = "invalid"
       /\ stats'.terms_skipped = stats.terms_skipped + 1
       /\ stats'.terms_fetched = stats.terms_fetched + 1
       /\ pc' = "for_next" /\ gen'.pc = "resumed"
       /\ UNCHANGED <<terms_batch, synonyms_batch, parent_urls_map,
                      mesh_xrefs_map>>]_vars

\* a string is non-empty and has no white space at its ends
Trimmed(x) == x # <<>> /\ Strip(x) = x

\* a term row or buffered term is well formed and is not of a record that
\* lacks a field
TermAccepted(t) ==
  /\ Trimmed(t.term_id) /\ Trimmed(t.iri) /\ Trimmed(t.label)
  /\ t.term_id # <<"T", "3">> /\ t.iri # <<"I", "3">>

\* the rows a flush in progress hands to the database
RowsInFlight(kind) == IF op.kind = kind THEN Range(op.rows) ELSE {}

\* C23: a record that fails validation contributes nothing: no term row, no
\* synonym row, no cross-reference and no parent-link URL of such a record
\* is in any buffer, flush or table, and every term row held or written has
\* a non-empty, trimmed term_id, iri and label.
C23_RejectedEntirely ==
  /\ \A t \in committed.efo_terms : TermAccepted(t)
  /\ \A t \in working.efo_terms : TermAccepted(t)
  /\ \A t \in Range(terms_batch) : TermAccepted(t)
  /\ \A t \in RowsInFlight("terms") : TermAccepted(t)
  /\ \A r \in Range(synonyms_batch) : r.synonym # <<"b">>
  /\ \A r \in RowsInFlight("synonyms") : r.synonym # <<"b">>
  /\ \A r \in Range(committed.efo_synonyms) : r.synonym # <<"b">>
  /\ \A r \in Range(working.efo_synonyms) : r.synonym # <<"b">>
  /\ \A e \in Range(parent_urls_map) : e.v # <<"U", "3">>
  /\ \A e \in Range(mesh_xrefs_map) : <<"D", "3">> \notin Range(e.v)
  /\ \A r \in Range(mesh_xrefs_batch) : r.mesh_id # <<"D", "3">>
  /\ \A r \in RowsInFlight("mesh_xrefs") : r.mesh_id # <<"D", "3">>
  /\ \A r \in Range(committed.mesh_cross_references) : r.mesh_id # <<"D", "3">>
  /\ \A r \in Range(working.mesh_cross_references) : r.mesh_id # <<"D", "3">>

\* a run over a record with a blank label followed by a valid one has
\* ended: one skip, one term row
C23_Witness ==
  /\ pc = "exit" /\ exit_code = 0
  /\ source.pages = << <<R7, R1>> >>
  /\ stats.terms_skipped = 1 /\ stats.terms_fetched = 2
  /\ Cardinality(committed.efo_terms) = 1
  /\ Len(committed.efo_synonyms) > 0

(***************************************************************************)
(* C24-C25: the content hash.                                              *)
(***************************************************************************)
Count(x, l) == Cardinality({i \in 1..Len(l) : l[i] = x})
IsPermutation(l, m) ==
  /\ Len(l) = Len(m)
  /\ \A i \in 1..Len(l) : Count(l[i], l) = Count(l[i], m)
HashCalls == IF pc = "hash" THEN 1..Len(snapshots) ELSE {}

\* C24: compute_term_hash gives the same hash to two calls with the same
\* term whose synonym lists are permutations of one another and whose
\* parent lists are permutations of one another (and so to the same input
\* given twice).
C24_HashOrderInsensitive ==
  \A i, j \in HashCalls :
    (/\ snapshots[i].term_dict = snapshots[j].term_dict
     /\ IsPermutation(snapshots[i].synonyms_list, snapshots[j].synonyms_list)
     /\ IsPermutation(snapshots[i].parent_iris, snapshots[j].parent_iris))
    => snapshots[i].hash = snapshots[j].hash

C24_Witness ==
  /\ pc = "hash" /\ Len(snapshots) = 2
  /\ snapshots[1].term_dict = snapshots[2].term_dict
  /\ snapshots[1].synonyms_list = << <<"a", ",", "a">>, <<"a">> >>
  /\ snapshots[2].synonyms_list = << <<"a">>, <<"a", ",", "a">> >>
  /\ snapshots[1].parent_iris = << <<"y">>, <<"x">> >>
  /\ snapshots[2].parent_iris = << <<"x">>, <<"y">> >>
  /\ snapshots[1].hash = snapshots[2].hash

\* C25: with an injective digest, two calls of compute_term_hash that differ
\* in the label, in the description, in the set of synonyms or in the set of
\* parent IRIs give different hashes.
C25_HashSensitive ==
  \A i, j \in HashCalls :
    (\/ snapshots[i].term_dict.label # snapshots[j].term_dict.label
     \/ snapshots[i].term_dict.description # snapshots[j].term_dict.description
     \/ Range(snapshots[i].synonyms_list) # Range(snapshots[j].synonyms_list)
     \/ Range(snapshots[i].parent_iris) # Range(snapshots[j].parent_iris))
    => snapshots[i].hash # snapshots[j].hash

(***************************************************************************)
(* C26-C27: which terms a run keeps.                                       *)
(***************************************************************************)
ValidAtRecord ==
  /\ AtRecord
  /\ normalize_term(extract_term_data(gen.terms[gen.idx])).tag = "ok"

\* the content_hash column of the stored row of a term, as a set
StoredHashOf(db, term_id) ==
  {r.content_hash : r \in {x \in db.efo_terms : x.term_id = term_id}}

\* C26: in incremental mode the map of stored hashes is the content_hash
\* column of efo_terms as the run found it; a valid term whose fresh hash
\* equals its stored hash is not appended to terms_batch and is counted once
\* in terms_skipped; a valid term whose hash differs, or that has no stored
\* hash, is appended to terms_batch and is not counted as skipped.
C26_IncrementalSkip ==
  [][config.execution_mode = "incremental" =>
       /\ pc = "load_hashes" =>
            \A r \in committed.efo_terms :
              /\ r.term_id \in DOMAIN stored_hashes'
              /\ stored_hashes'[r.term_id] = r.content_hash
       /\ ValidAtRecord =>
            LET t == TermOf(gen.terms[gen.idx])
                same == /\ t.term_id \in DOMAIN stored_hashes
                        /\ stored_hashes[t.term_id] = t.content_hash
            IN /\ stats'.terms_fetched = stats.terms_fetched + 1
               /\ stored_hashes' = stored_hashes
               /\ IF same
                  THEN /\ terms_batch' = terms_batch
                       /\ stats'.terms_skipped = stats.terms_skipped + 1
                  ELSE /\ terms_batch' = Append(terms_batch, t)
                       /\ stats'.terms_skipped = stats.terms_skipped]_vars

\* an incremental run over the filled store: T1 is unchanged and skipped, T2
\* has a new label and is written
C26_Witness ==
  /\ pc = "final_terms"
  /\ config.execution_mode = "incremental"
  /\ source.pages = << <<R1, R2>> >>
  /\ stats.terms_fetched = 2 /\ stats.terms_skipped = 1
  /\ terms_batch = <<TermOf(R2)>>
  /\ stored_hashes[<<"T", "1">>] = TermOf(R1).content_hash
  /\ StoredHashOf(committed, <<"T", "2">>) # {TermOf(R2).content_hash}

\* C27: in full and test modes every valid term is appended to terms_batch
\* and none is counted as skipped, whatever the store holds; the map of
\* stored hashes is never loaded; fetch_all_terms is given record_limit in
\* test mode and None in the other modes.
C27_FullAndTestKeepAll ==
  [][/\ config.execution_mode \in {"full", "test"} =>
          /\ stored_hashes = <<>>
          /\ ValidAtRecord =>
               /\ terms_batch' = Append(terms_batch, TermOf(gen.terms[gen.idx]))
               /\ stats'.terms_skipped = stats.terms_skipped
               /\ stats'.terms_fetched = stats.terms_fetched + 1
     /\ gen.pc # "none" =>
          gen.limit = IF config.execution_mode = "test"
                      THEN Limit(config.record_limit) ELSE LimitNone]_vars

\* a full run with record_limit 1 over the filled store: both records are
\* fetched and both terms written, T1 with the hash the store already held
C27_Witness ==
  /\ pc = "exit" /\ exit_code = 0
  /\ config.execution_mode = "full" /\ config.record_limit = 1
  /\ source.pages = << <<R1, R2>> >>
  /\ stats.terms_fetched = 2 /\ stats.terms_skipped = 0
  /\ stats.terms_inserted = 2
  /\ StoredHashOf(flush.pre, <<"T", "1">>) = {TermOf(R1).content_hash}

(***************************************************************************)
(* C28: the flushes of the term buffer.                                    *)
(***************************************************************************)
RECURSIVE BatchesOfCalls(_, _)
BatchesOfCalls(kind, calls) ==
  IF calls = <<>> THEN <<>>
  ELSE (IF Head(calls).kind = kind THEN <<Head(calls).batch>> ELSE <<>>)
       \o BatchesOfCalls(kind, Tail(calls))
TermFlushes == BatchesOfCalls("terms", flush.calls)

\* the terms a run keeps of the records it was given, in order
RECURSIVE KeptTerms(_)
KeptTerms(recs) ==
  IF recs = <<>> THEN <<>>
  ELSE LET t == TermOf(Head(recs)) IN
       (IF normalize_term(extract_term_data(Head(recs))).tag # "ok"
        THEN <<>>
        ELSE IF /\ config.execution_mode = "incremental"
                /\ t.term_id \in DOMAIN stored_hashes
                /\ stored_hashes[t.term_id] = t.content_hash
        THEN <<>> ELSE <<t>>)
       \o KeptTerms(Tail(recs))

CeilDiv(n, b) == (n + b - 1) \div b
TermsFlushed ==
  pc \in {"final_synonyms", "resolve_parents", "build_iri_map", "rel_loop",
          "rel_flush", "rel_final", "mesh_start", "mesh_loop", "mesh_flush",
          "mesh_final", "update_success", "log_complete", "finally", "exit"}

\* C28: every call of bulk_insert_terms but the last is given exactly
\* batch_size terms and the last between 1 and batch_size; inside the loop
\* every call is given exactly batch_size.  Once the final flush is over, the
\* N kept terms have been given to ceil(N / batch_size) calls, each term to
\* exactly one call, in order.
C28_TermFlushes ==
  LET B == config.batch_size
      F == TermFlushes
  IN /\ \A i \in 1..Len(F) :
          /\ Len(F[i]) \in 1..B
          /\ (i < Len(F) \/ pc \in {"for_next", "flush_terms", "flush_synonyms"})
               => Len(F[i]) = B
     /\ Len(terms_batch) <= B
     /\ TermsFlushed =>
          LET kept == KeptTerms(yielded) IN
          /\ Flatten(F) = kept
          /\ Len(F) = CeilDiv(Len(kept), B)
          /\ terms_batch = <<>>

\* batch_size 2 and five kept terms: flushes of 2, 2 and 1
C28_Witness ==
  /\ pc = "exit" /\ exit_code = 0
  /\ config.batch_size = 2
  /\ Len(KeptTerms(yielded)) = 5
  /\ Len(TermFlushes) = 3
  /\ Len(TermFlushes[1]) = 2 /\ Len(TermFlushes[2]) = 2 /\ Len(TermFlushes[3]) = 1

(***************************************************************************)
(* C29: the phases of a run do not overlap.                                *)
(***************************************************************************)
BeforeRelationships ==
  pc \in {"connect", "create_execution_record", "assign_execution_id",
          "load_hashes", "for_next", "flush_terms", "flush_synonyms",
          "final_terms", "final_synonyms", "resolve_parents", "build_iri_map"}
InRelationships == pc \in {"rel_loop", "rel_flush", "rel_final"}

\* C29: until main has passed the final flushes and the parent resolution,
\* the IRI-to-id map is not built, no relationship row is in the buffer, in
\* a flush or in the table.  While the relationship phase runs, the fetch is
\* over, the term buffer is empty, no term flush is open, every kept term is
\* a committed row of efo_terms under the id the map gives its IRI, and
\* parent_refs_map holds the parents of every URL that has parents.
C29_NoPhaseOverlap ==
  /\ BeforeRelationships =>
       /\ iri_to_id_map = <<>> /\ relationships_batch = <<>>
       /\ BatchesOfCalls("relationships", flush.calls) = <<>>
       /\ op.kind # "relationships"
       /\ working.efo_relationships = <<>> /\ committed.efo_relationships = <<>>
  /\ (InRelationships \/ relationships_batch # <<>>) =>
       /\ InRelationships
       /\ gen.pc = "done"
       /\ terms_batch = <<>> /\ synonyms_batch = <<>>
       /\ op.kind \in {"none", "relationships"}
       /\ Flatten(TermFlushes) = KeptTerms(yielded)
       /\ \A t \in Range(KeptTerms(yielded)) :
            /\ t.iri \in DOMAIN iri_to_id_map
            /\ \E r \in committed.efo_terms :
                 /\ r.term_id = t.term_id /\ r.iri = t.iri
                 /\ r.id = iri_to_id_map[t.iri]
       /\ \A i \in 1..Len(parent_urls_map) :
            ParentsAt(parent_urls_map[i].v) # <<>> =>
              /\ DictHas(parent_refs_map, parent_urls_map[i].k)
              /\ DictGet(parent_refs_map, parent_urls_map[i].k, <<>>)
                   = ParentsAt(parent_urls_map[i].v)

\* the first relationship row is in the buffer; the terms went out in two
\* flushes before
C29_Witness ==
  /\ pc = "rel_flush" /\ Len(relationships_batch) = 1
  /\ config.batch_size = 1 /\ Len(TermFlushes) = 2
  /\ committed.efo_relationships = <<>>

(***************************************************************************)
(* C30: relationships are built of stored terms only.                      *)
(***************************************************************************)
\* what each reference of RelHrefs names
IriNamed(href) ==
  CASE href = HrefParam -> <<"I", "1">>
    [] href = HrefPath -> <<"I", "2", "/">>
    [] OTHER -> href

RECURSIVE KnownParents(_, _)
KnownParents(refs, known) ==
  IF refs = <<>> THEN <<>>
  ELSE (IF IriNamed(Head(refs)) \in known THEN <<IriNamed(Head(refs))>> ELSE <<>>)
       \o KnownParents(Tail(refs), known)

\* the (child, parent) IRI pairs of the entries looked at so far whose two
\* ends are IRIs of stored terms
RECURSIVE KnownPairs(_, _)
KnownPairs(entries, known) ==
  IF entries = <<>> THEN <<>>
  ELSE (IF Head(entries).k \in known
        THEN LET ps == KnownParents(Head(entries).v, known)
             IN [i \in 1..Len(ps) |-> <<Head(entries).k, ps[i]>>]
        ELSE <<>>)
       \o KnownPairs(Tail(entries), known)

RelEmitted ==
  Flatten(BatchesOfCalls("relationships", flush.calls))
  \o (IF op.kind = "relationships" THEN <<>> ELSE relationships_batch)
RelLookedAt == SubSeq(parent_refs_map, 1, Len(parent_refs_map) - Len(todo))
IdOfIri(db, iri) == {r.id : r \in {x \in db.efo_terms : x.iri = iri}}

\* C30: the relationship phase raises nothing; the pairs it has emitted are,
\* in order, the pairs of the entries looked at whose child IRI and parent
\* IRI are both IRIs of stored terms, each as the ids of those two terms: a
\* parent that is not stored is dropped, a child that is not stored gives
\* nothing.  Every row of efo_relationships joins two rows of efo_terms.
C30_RelationshipsOfStoredTerms ==
  pc \in {"rel_loop", "rel_flush", "rel_final", "mesh_start"} =>
    LET known == {r.iri : r \in committed.efo_terms}
        pairs == KnownPairs(RelLookedAt, known)
        ids == {r.id : r \in committed.efo_terms}
    IN /\ exc = "" /\ exit_code = -1
       /\ Len(RelEmitted) = Len(pairs)
       /\ \A i \in 1..Len(pairs) :
            /\ IdOfIri(committed, pairs[i][1]) = {RelEmitted[i][1]}
            /\ IdOfIri(committed, pairs[i][2]) = {RelEmitted[i][2]}
       /\ \A r \in Range(working.efo_relationships)
                     \cup Range(committed.efo_relationships) :
            r.child_id \in ids /\ r.parent_id \in ids

\* I1 is stored with parents I2 (stored), I3 (not stored) dropped; I9 is not
\* stored and gives nothing
C30_Witness ==
  /\ pc = "mesh_start"
  /\ parent_refs_map = <<[k |-> <<"I", "1">>, v |-> << <<"I", "3">>, <<"I", "2">> >>],
                         [k |-> <<"I", "9">>, v |-> << <<"I", "2">> >>]>>
  /\ Cardinality(committed.efo_terms) = 2
  /\ Len(committed.efo_relationships) = 1
  /\ IdOfIri(committed, <<"I", "1">>) = {committed.efo_relationships[1].child_id}
  /\ IdOfIri(committed, <<"I", "2">>) = {committed.efo_relationships[1].parent_id}

(***************************************************************************)
(* C31, C33: exit code, release of the connection, validated configuration.*)
(***************************************************************************)
\* the run record of this run says success
RecordedSuccess(db, id) ==
  /\ id \in 1..Len(db.pipeline_executions)
  /\ db.pipeline_executions[id].status = "success"

\* C31: both exception handlers and a configuration error end with exit
\* code 1; the process ends with exit code 0 exactly when its run record
\* was left 'success'; at the end the connection, if one was opened, is
\* closed.
C31_ExitCodeAndRelease ==
  [][/\ pc \in {"except_interrupt", "except_exception"} => exit_code' = 1
     /\ (pc = "get_config" /\ ~ConfigValid(config)) =>
          (pc' = "exit" /\ exit_code' = 1 /\ connection' = "none")
     /\ pc' = "exit" =>
          /\ exit_code' \in {0, 1, 2}
          /\ exit_code' = 0 <=> RecordedSuccess(committed', execution_id')
          /\ connection' # "open"
          /\ connection # "none" => connection' = "closed"]_vars

\* a database failure in the relationship phase: exit code 1, record
\* failed, connection closed
C31_Witness ==
  /\ pc = "exit" /\ exit_code = 1 /\ connection = "closed"
  /\ exc = "psycopg2.Error" /\ flush.kind = "relationships"
  /\ flush.state = "failed"
  /\ committed.pipeline_executions[execution_id].status = "failed"

\* C33: a run that has gone past the configuration (it has opened its
\* connection, or is about to) has a mode among test, full, incremental and
\* a record limit that is not negative.
C33_EffectiveConfigValid ==
  pc \notin {"parse_arguments", "get_config", "exit"} =>
    /\ config.execution_mode \in {"test", "full", "incremental"}
    /\ config.record_limit >= 0

(***************************************************************************)
(* C32: the hash of the first pass ignores the parents.                    *)
(***************************************************************************)
\* the digest of a term's label, description and sorted synonyms, with an
\* empty list of parents
HashWithoutParents(t, synonyms_list) ==
  Some(<<"#">> \o t.label \o <<"|">>
       \o (IF t.description.some THEN t.description.val ELSE <<>>) \o <<"|">>
       \o Join(<<",">>, Sorted(synonyms_list)) \o <<"|">>)

\* the valid records processed so far whose term the run skipped as unchanged
SkippedUnchanged ==
  {r \in Range(yielded) :
     /\ config.execution_mode = "incremental"
     /\ stats.terms_fetched > 0
     /\ normalize_term(extract_term_data(r)).tag = "ok"
     /\ TermOf(r).term_id \in DOMAIN stored_hashes
     /\ stored_hashes[TermOf(r).term_id] = TermOf(r).content_hash}

\* C32: every term the run holds or flushes carries the hash of its label,
\* description and synonyms with an empty parent list, and no step after
\* the term phase changes a row of efo_terms.  A term skipped as unchanged
\* in incremental mode has no entry in parent_urls_map or parent_refs_map
\* and no relationship row of the run has it as child, whatever parent link
\* its record carries.
C32_HashIgnoresParents ==
  /\ \A b \in {terms_batch} \cup Range(TermFlushes) :
       \A i \in 1..Len(b) :
         \E r \in Range(yielded) :
           /\ TermOf(r).term_id = b[i].term_id
           /\ b[i].content_hash = HashWithoutParents(b[i], extract_synonyms(r))
  /\ (~BeforeRelationships \/ pc \in {"resolve_parents", "build_iri_map"}) =>
       /\ committed.efo_terms = working.efo_terms
       /\ \A t \in Range(Flatten(TermFlushes)) :
            StoredHashOf(committed, t.term_id) = {t.content_hash}
  /\ \A r \in SkippedUnchanged :
       LET iri == TermOf(r).iri IN
       /\ ~DictHas(parent_urls_map, iri)
       /\ ~DictHas(parent_refs_map, iri)
       /\ \A p \in Range(relationships_batch) : {p[1]} # IdOfIri(working, iri)
       /\ \A x \in Range(working.efo_relationships) :
            {x.child_id} # IdOfIri(working, iri)

\* an incremental run over the filled store: T1 comes with a parent link to
\* the stored term T2, is skipped as unchanged, and the run ends without a
\* relationship row
C32_Witness ==
  /\ pc = "exit" /\ exit_code = 0
  /\ config.execution_mode = "incremental"
  /\ source.pages = << <<R8, R2>> >>
  /\ R8 \in SkippedUnchanged
  /\ stats.terms_skipped = 1
  /\ Cardinality(committed.efo_terms) = 2
  /\ committed.efo_relationships = <<>>

(***************************************************************************)
(* C34: the counters of the term phase.                                    *)
(***************************************************************************)
InLoadTerms ==
  pc \in {"for_next", "flush_terms", "flush_synonyms", "final_terms",
          "final_synonyms"}
\* the records main has taken from the generator and dealt with
Processed ==
  IF AtRecord THEN SubSeq(yielded, 1, Len(yielded) - 1) ELSE yielded
\* the terms waiting in terms_batch (a batch inside bulk_insert_terms has
\* been handed over)
TermsWaiting == IF op.kind = "terms" THEN <<>> ELSE terms_batch
TermsHanded == Flatten(TermFlushes)

\* C34: during the term phase, between two statements of main,
\* terms_fetched is the number of records dealt with, and it equals
\* terms_skipped plus the terms in terms_batch plus the terms handed to
\* bulk_insert_terms; the terms handed over followed by those waiting are
\* exactly the kept terms, so each record counts once.  After a successful
\* run terms_fetched = terms_skipped + terms handed to bulk_insert_terms.
C34_CountersConserved ==
  /\ InLoadTerms =>
       /\ stats.terms_fetched = Len(Processed)
       /\ stats.terms_fetched
            = stats.terms_skipped + Len(TermsWaiting) + Len(TermsHanded)
       /\ TermsHanded \o TermsWaiting = KeptTerms(Processed)
  /\ (pc = "exit" /\ exit_code = 0) =>
       /\ terms_batch = <<>>
       /\ stats.terms_fetched = stats.terms_skipped + Len(TermsHanded)

\* four records dealt with: one skipped, two flushed, one waiting
C34_Witness ==
  /\ pc = "for_next" /\ ~AtRecord
  /\ stats.terms_fetched = 4 /\ stats.terms_skipped = 1
  /\ Len(terms_batch) = 1 /\ Len(TermsHanded) = 2

(***************************************************************************)
(* C35: a retrieval cut short.                                             *)
(***************************************************************************)
Truncated == gen.stop = "failed"

\* C35: a retrieval ended by a page that failed raises nothing: main is
\* never in a handler, it can always go on until it exits, and it exits with
\* code 0 after the later phases ran on the records it got (every kept term
\* is stored, with the relationship and the cross-reference its record
\* gives).  The run record is then 'success' with the counters and no error
\* text: nothing in it tells the retrieval was cut short.
C35_TruncatedRunSucceeds ==
  Truncated =>
    /\ exc = "" /\ pc \notin {"except_exception", "except_interrupt"}
    /\ pc # "exit" => ENABLED NextTruncated
    /\ pc = "exit" =>
         /\ exit_code = 0
         /\ RunRecord = [execution_mode |-> config.execution_mode,
                         status |-> "success",
                         terms_fetched |-> stats.terms_fetched,
                         terms_inserted |-> stats.terms_inserted,
                         terms_updated |-> stats.terms_updated,
                         terms_skipped |-> stats.terms_skipped,
                         error_message |-> "null"]
         /\ stats.terms_fetched = Len(yielded)
         /\ \A t \in Range(KeptTerms(yielded)) :
              StoredHashOf(committed, t.term_id) = {t.content_hash}
         /\ (TermOf(R1) \in Range(KeptTerms(yielded))
              /\ IdOfIri(committed, <<"I", "2">>) # {}) =>
               \E x \in Range(committed.efo_relationships) :
                 /\ {x.child_id} = IdOfIri(committed, <<"I", "1">>)
                 /\ {x.parent_id} = IdOfIri(committed, <<"I", "2">>)
         /\ TermOf(R1) \in Range(KeptTerms(yielded)) =>
              \E x \in Range(committed.mesh_cross_references) :
                 /\ {x.term_id} = IdOfIri(committed, <<"I", "1">>)
                 /\ x.mesh_id = <<"D", "1">>

\* page 0 gave R1, page 1 failed: the run ends 'success' with one term
\* fetched of the two the source holds
C35_Witness ==
  /\ Truncated /\ pc = "exit" /\ exit_code = 0
  /\ source.pages = << <<R1>>, <<R2>> >>
  /\ yielded = <<R1>>
  /\ config.execution_mode = "full"
  /\ RunRecord.status = "success" /\ RunRecord.terms_fetched = 1
  /\ RunRecord.error_message = "null"

(***************************************************************************)
(* C36: a record limit of 0.                                               *)
(***************************************************************************)
\* C36: in test mode with record_limit 0 the generator is given 0, never
\* stops on its limit, and, when no page fails, ends only after it has
\* yielded every record of the source, in order.
C36_ZeroLimitIsNoLimit ==
  (config.execution_mode = "test" /\ config.record_limit = 0
   /\ gen.pc # "none") =>
    /\ gen.limit = Limit(0)
    /\ gen.stop # "limit"
    /\ \E n \in 0..Len(Flatten(source.pages)) :
         yielded = SubSeq(Flatten(source.pages), 1, n)
    /\ (gen.pc = "done" /\ ~Truncated) => yielded = Flatten(source.pages)

\* a test run with record_limit 0 over two pages: both records are fetched
C36_Witness ==
  /\ pc = "exit" /\ exit_code = 0 /\ ~Truncated
  /\ config.execution_mode = "test" /\ config.record_limit = 0
  /\ source.pages = << <<R1>>, <<R2>> >>
  /\ yielded = <<R1, R2>> /\ stats.terms_fetched = 2

(***************************************************************************)
(* C37: the counters a handler writes.                                     *)
(***************************************************************************)
\* the four counters of a run record
CountersOf(rec) ==
  [terms_fetched |-> rec.terms_fetched, terms_inserted |-> rec.terms_inserted,
   terms_updated |-> rec.terms_updated, terms_skipped |-> rec.terms_skipped]

\* the step leaves the run record 'failed' with these counters
WrittenFailed(db, id, st) ==
  /\ db.pipeline_executions[id].status = "failed"
  /\ CountersOf(db.pipeline_executions[id]) = st

\* C37: the KeyboardInterrupt handler of a run that holds its execution id
\* writes the record 'failed' with the four counters 0, whatever the
\* counters of the run are; the handler of a database failure writes the
\* record 'failed' with the counters accumulated so far.
C37_HandlerCounters ==
  [][/\ (pc = "except_interrupt" /\ execution_id # 0) =>
           /\ WrittenFailed(committed', execution_id, NoStats)
           /\ committed'.pipeline_executions[execution_id].error_message
                = "Interrupted by user"
     /\ (pc = "except_exception" /\ exc = "psycopg2.Error"
           /\ execution_id # 0) =>
           WrittenFailed(committed', execution_id, stats)]_vars

(***************************************************************************)
(* C38: 429 answers and the attempt cap.                                   *)
(***************************************************************************)
\* answers that are 429 or 5xx only, one 429 at least
RateLimitedMix(answers) ==
  /\ \A i \in 1..Len(answers) : answers[i] \in {"429", "5xx"}
  /\ \E i \in 1..Len(answers) : answers[i] = "429"

\* C38: a 429 uses up an attempt as a 5xx does: a page fetch whose answers
\* are 429 and 5xx in any mix makes at most 3 requests, has not returned
\* before the third, and returns None at the third.
C38_RateLimitCountsAsAttempt ==
  LET answers == Answers(gen.log) IN
  RateLimitedMix(answers) =>
    /\ Len(answers) <= max_retries
    /\ ReturnedNone <=> Len(answers) = max_retries
    /\ Len(answers) < max_retries => gen.pc = "request"
    /\ gen.pc \in {"request", "returned"} => gen.attempt = Len(answers)

\* 429 three times in a row: None after the third request
C38_Witness ==
  /\ Returned /\ gen.result = "None"
  /\ Answers(gen.log) = <<"429", "429", "429">>

\* a mix of 429 and 5xx: None after the third request
C38_WitnessMix ==
  /\ Returned /\ gen.result = "None"
  /\ Answers(gen.log) = <<"5xx", "429", "5xx">>

(***************************************************************************)
(* C39: several parent links.                                              *)
(***************************************************************************)
\* the URLs of the parent links of a raw record, in the order of its links
\* section
LinkUrls(rec) == rec.parents.hrefs

\* the IRIs of a sequence of URLs' parents
RECURSIVE ParentsBehind(_)
ParentsBehind(urls) ==
  IF urls = <<>> THEN {}
  ELSE Range(ParentsAt(Head(urls))) \cup ParentsBehind(Tail(urls))

\* the parents of a record that only its second and later links lead to
LaterOnly(rec) ==
  IF LinkUrls(rec) = <<>> THEN {}
  ELSE ParentsBehind(Tail(LinkUrls(rec))) \ ParentsBehind(<<Head(LinkUrls(rec))>>)

\* (child id, parent id) pairs, stored (committed or not) or buffered, from
\* a child IRI to a parent IRI
RowsBetween(child_iri, parent_iri) ==
  {p \in {<<r.child_id, r.parent_id>> :
            r \in Range(committed.efo_relationships)
                  \cup Range(working.efo_relationships)}
         \cup Range(relationships_batch) :
     /\ p[1] \in IdOfIri(working, child_iri)
     /\ p[2] \in IdOfIri(working, parent_iri)}

\* C39: of a record with several parent links only the first URL is
\* buffered and resolved: the accumulation map has one entry per term IRI,
\* whose value is the first link URL of a fetched record of that IRI;
\* parent_refs_map holds the parents behind that URL only; no relationship
\* row joins a term to a parent that only its later links lead to.
C39_FirstParentLinkOnly ==
  /\ \A i, j \in 1..Len(parent_urls_map) :
       parent_urls_map[i].k = parent_urls_map[j].k => i = j
  /\ \A i \in 1..Len(parent_urls_map) :
       \E n \in 1..Len(yielded) :
         /\ yielded[n].iri = PyStr(parent_urls_map[i].k)
         /\ LinkUrls(yielded[n]) # <<>>
         /\ parent_urls_map[i].v = Head(LinkUrls(yielded[n]))
  /\ \A i \in 1..Len(parent_refs_map) :
       parent_refs_map[i].v =
         ParentsAt(DictGet(parent_urls_map, parent_refs_map[i].k, <<>>))
  /\ \A n \in 1..Len(yielded) : \A parent_iri \in LaterOnly(yielded[n]) :
       RowsBetween(yielded[n].iri.v, parent_iri) = {}

\* T1 with links to I2 and to I3, T2 and T3 loaded in one full run: the
\* only relationship row is T1 -> T2
C39_Witness ==
  /\ pc = "exit" /\ exit_code = 0
  /\ yielded = <<R9, R2, R10>>
  /\ Cardinality(committed.efo_terms) = 3
  /\ parent_urls_map = <<[k |-> <<"I", "1">>, v |-> <<"U", "2">>]>>
  /\ Len(committed.efo_relationships) = 1
  /\ RowsBetween(<<"I", "1">>, <<"I", "2">>) # {}
  /\ LaterOnly(R9) = {<<"I", "3">>}

(***************************************************************************)
(* C40: the flushes of synonyms, relationships and cross-references.       *)
(***************************************************************************)
\* the synonym rows main buffers for the records it keeps, in order
RECURSIVE KeptSynonyms(_)
KeptSynonyms(recs) ==
  IF recs = <<>> THEN <<>>
  ELSE (IF KeptTerms(<<Head(recs)>>) = <<>> THEN <<>>
        ELSE normalize_synonyms(TermOf(Head(recs)).term_id,
                                extract_synonyms(Head(recs))))
       \o KeptSynonyms(Tail(recs))

\* the relationship pairs of the entries of parent_refs_map, in order
RECURSIVE PairsOf(_)
PairsOf(entries) ==
  IF entries = <<>> THEN <<>>
  ELSE normalize_relationships(Head(entries).k, Head(entries).v, iri_to_id_map)
       \o PairsOf(Tail(entries))

\* the cross-reference rows of the entries of mesh_xrefs_map, in order
RECURSIVE XrefsOf(_)
XrefsOf(entries) ==
  IF entries = <<>> THEN <<>>
  ELSE normalize_mesh_xrefs(Head(entries).k, Head(entries).v)
       \o XrefsOf(Tail(entries))

\* the rows of a kind handed to its bulk_insert_* calls so far, and those
\* still waiting in the buffer
Handed(kind) == Flatten(BatchesOfCalls(kind, flush.calls))
Waiting(kind) == IF op.kind = kind THEN <<>> ELSE BatchOf(kind)

\* the entries of a dict looked at by a loop that has todo left
LookedAt(d) == SubSeq(d, 1, Len(d) - Len(todo))

\* a flush of the kind was handed more rows than batch_size
Oversized(kind) ==
  \E i \in 1..Len(flush.calls) :
    /\ flush.calls[i].kind = kind
    /\ Len(flush.calls[i].batch) > config.batch_size

\* C40: the rows of synonyms, relationships and cross-references handed to
\* the bulk_insert_* calls, followed by those waiting in the buffer, are
\* exactly the rows of the records (entries) dealt with so far, each once
\* and in order; when the phase is over the buffer is empty and every row has been handed
\* over.  A flush inside a loop is handed batch_size rows at least.
C40_RowFlushesUnbounded ==
  /\ InLoadTerms =>
       Handed("synonyms") \o Waiting("synonyms") = KeptSynonyms(Processed)
  /\ pc \in {"rel_loop", "rel_flush", "rel_final"} =>
       Handed("relationships") \o Waiting("relationships")
         = PairsOf(LookedAt(parent_refs_map))
  /\ pc \in {"mesh_loop", "mesh_flush", "mesh_final"} =>
       Handed("mesh_xrefs") \o Waiting("mesh_xrefs")
         = XrefsOf(LookedAt(mesh_xrefs_map))
  /\ pc \in {"update_success", "log_complete", "finally", "exit"} =>
       /\ synonyms_batch = <<>> /\ relationships_batch = <<>>
       /\ mesh_xrefs_batch = <<>>
       /\ Handed("synonyms") = KeptSynonyms(yielded)
       /\ Handed("relationships") = PairsOf(parent_refs_map)
       /\ Handed("mesh_xrefs") = XrefsOf(mesh_xrefs_map)
  /\ \A i \in 1..Len(flush.calls) :
       /\ flush.calls[i].batch # <<>>
       /\ flush.calls[i].kind \in {"synonyms", "relationships", "mesh_xrefs"} =>
            \/ Len(flush.calls[i].batch) >= config.batch_size
            \/ \A j \in (i + 1)..Len(flush.calls) :
                 flush.calls[j].kind # flush.calls[i].kind

\* a run with batch_size 1 in which a synonym flush, a relationship flush
\* and a cross-reference flush were each handed two rows, while every term
\* flush was handed one
C40_Witness ==
  /\ pc = "exit" /\ exit_code = 0 /\ config.batch_size = 1
  /\ yielded = <<R1, R2, R11>>
  /\ Oversized("synonyms") /\ Oversized("relationships")
  /\ Oversized("mesh_xrefs") /\ ~Oversized("terms")
  /\ Len(Handed("relationships")) = 2
  /\ Len(committed.efo_relationships) = 2

=============================================================================
